---------------------------- MODULE Spec2Model ----------------------------
(***************************************************************************)
(* Model of the drawing/quote reconciliation core of                       *)
(* drawing-quote-analyzer-v4.py: the item matcher, the status engine and   *)
(* the quote extraction that feeds them.                                   *)
(*                                                                         *)
(* Text the program inspects character by character (item numbers,         *)
(* descriptions, raw cells) is a sequence of one-character strings, so     *)
(* that strip(), lower(), upper(), re.sub() and int() are computed and not *)
(* assumed.  Text the program only builds and hands on (status, issue) is  *)
(* a plain string.                                                         *)
(***************************************************************************)
EXTENDS Integers, Sequences, FiniteSets, TLC

VARIABLES
    drawing_schedule,      \* list of drawing items handed to the matcher / the analysis
    quotes,                \* list of quote items (all_q of the tabs, `quotes` of the functions)
    matched,               \* value returned by match_quote_to_drawing: index into quotes, 0 for None
    analysis,              \* rows returned by analyze_drawing_vs_quotes
    category_enforcement,  \* the toggle the caller asks for; the source's analysis takes no such argument
    parsed,                \* the parsed file being uploaded (parse_uploaded_file's result)
    extracted,             \* value returned by the drawing extraction function of the run (None or a list)
    quotes_data,           \* st.session_state.quotes_data: the stored batches in insertion order, each with its file name
    drawing_filename,      \* st.session_state.drawing_filename (None or a name)
    column_map,            \* found, the column mapping computed for a table (None before)
    quote_scan,            \* the locals of the line loop of parse_quote_from_text (None outside a scan)
    total_quoted,          \* the Total Quoted metric the Dashboard tab shows (None before)
    load_log,              \* history: the names of the quote files stored in quotes_data, in the order of storing
    pc                     \* position of the run

vars == <<drawing_schedule, quotes, matched, analysis, category_enforcement, parsed, extracted,
          quotes_data, drawing_filename, column_map, quote_scan, total_quoted, load_log, pc>>

\* An optional value (a Python value that may be None) is a sequence of at
\* most one element: None is the empty one.
None == <<>>
Some(x) == <<x>>
Val(o) == o[1]

(***************************************************************************)
(* Python string primitives over the characters the model uses.            *)
(***************************************************************************)
LowerLetters ==
    <<"a","b","c","d","e","f","g","h","i","j","k","l","m",
      "n","o","p","q","r","s","t","u","v","w","x","y","z">>

UpperLetters ==
    <<"A","B","C","D","E","F","G","H","I","J","K","L","M",
      "N","O","P","Q","R","S","T","U","V","W","X","Y","Z">>

DigitChars == <<"0","1","2","3","4","5","6","7","8","9">>

Range(s) == {s[i] : i \in DOMAIN s}

IndexOf(c, s) == CHOOSE i \in DOMAIN s : s[i] = c

IsLower(c) == c \in Range(LowerLetters)
IsUpper(c) == c \in Range(UpperLetters)
IsLetter(c) == IsLower(c) \/ IsUpper(c)
IsDigit(c) == c \in Range(DigitChars)
IsSpace(c) == c = " "

LowerChar(c) == IF IsUpper(c) THEN LowerLetters[IndexOf(c, UpperLetters)] ELSE c
UpperChar(c) == IF IsLower(c) THEN UpperLetters[IndexOf(c, LowerLetters)] ELSE c

\* str.lower()
lower(s) == [i \in DOMAIN s |-> LowerChar(s[i])]

\* str.upper()
upper(s) == [i \in DOMAIN s |-> UpperChar(s[i])]

RECURSIVE lstrip(_)
lstrip(s) == IF s # <<>> /\ IsSpace(Head(s)) THEN lstrip(Tail(s)) ELSE s

RECURSIVE rstrip(_)
rstrip(s) ==
    IF s # <<>> /\ IsSpace(s[Len(s)]) THEN rstrip(SubSeq(s, 1, Len(s) - 1)) ELSE s

\* str.strip()
strip(s) == rstrip(lstrip(s))

\* re.sub(r'[a-zA-Z]', '', s)
re_sub_letters(s) == SelectSeq(s, LAMBDA c : ~IsLetter(c))

RECURSIVE DigitsValue(_)
DigitsValue(s) ==
    IF s = <<>> THEN 0
    ELSE 10 * DigitsValue(SubSeq(s, 1, Len(s) - 1)) + (IndexOf(s[Len(s)], DigitChars) - 1)

AllDigits(s) == s # <<>> /\ \A i \in DOMAIN s : IsDigit(s[i])

\* int(s) on a str: surrounding whitespace is ignored, one leading sign is
\* allowed, the rest must be one or more decimal digits; anything else raises
\* ValueError (ok = FALSE).
py_int(s) ==
    LET t == strip(s)
        signed == t # <<>> /\ Head(t) \in {"+", "-"}
        body == IF signed THEN Tail(t) ELSE t
    IN  IF AllDigits(body)
        THEN [ok |-> TRUE,
              val |-> IF signed /\ Head(t) = "-" THEN 0 - DigitsValue(body)
                      ELSE DigitsValue(body)]
        ELSE [ok |-> FALSE, val |-> 0]

\* A float is a number of hundredths, or NaN.
Float(c) == [nan |-> FALSE, c |-> c]
NaN == [nan |-> TRUE, c |-> 0]

\* U+2013 EN DASH, one character
EnDash == "endash"

\* s.replace(c, '') for a one-character c
replace_char(s, c) == SelectSeq(s, LAMBDA x : x # c)

\* s.replace('ea', ''): occurrences are removed left to right, without overlap
RECURSIVE replace_ea(_)
replace_ea(s) ==
    IF Len(s) < 2 THEN s
    ELSE IF s[1] = "e" /\ s[2] = "a" THEN replace_ea(SubSeq(s, 3, Len(s)))
    ELSE <<s[1]>> \o replace_ea(Tail(s))

\* value in hundredths of the fraction digits d (the model's cells carry at
\* most two)
FractionValue(d) ==
    IF d = <<>> THEN 0
    ELSE IF Len(d) = 1 THEN 10 * DigitsValue(d)
    ELSE DigitsValue(SubSeq(d, 1, 2))

AllDigitsOrEmpty(s) == \A i \in DOMAIN s : IsDigit(s[i])

\* float(s) on a str: surrounding whitespace ignored, one optional sign, then
\* "nan" in any case, or digits with at most one point and a digit on at
\* least one side of it; anything else raises ValueError (ok = FALSE).
py_float(s) ==
    LET t == strip(s)
        signed == t # <<>> /\ Head(t) \in {"+", "-"}
        neg == signed /\ Head(t) = "-"
        body == IF signed THEN Tail(t) ELSE t
        points == {i \in DOMAIN body : body[i] = "."}
        p == IF points = {} THEN Len(body) + 1 ELSE CHOOSE i \in points : TRUE
        whole == SubSeq(body, 1, p - 1)
        frac == SubSeq(body, p + 1, Len(body))
        mag == 100 * DigitsValue(whole) + FractionValue(frac)
    IN  IF lower(body) = <<"n","a","n">> THEN [ok |-> TRUE, f |-> NaN]
        ELSE IF /\ Cardinality(points) <= 1
                /\ AllDigitsOrEmpty(whole) /\ AllDigitsOrEmpty(frac)
                /\ Len(whole) + Len(frac) > 0
            THEN [ok |-> TRUE, f |-> Float(IF neg THEN 0 - mag ELSE mag)]
        ELSE [ok |-> FALSE, f |-> Float(0)]

\* int(f) on a float: truncation toward zero; NaN raises ValueError
int_of_float(f) ==
    IF f.nan THEN [ok |-> FALSE, val |-> 0]
    ELSE [ok |-> TRUE,
          val |-> IF f.c >= 0 THEN f.c \div 100 ELSE 0 - ((0 - f.c) \div 100)]

\* f * n for a float f and an int n
float_times_int(f, n) == IF f.nan THEN NaN ELSE Float(f.c * n)

(***************************************************************************)
(* Item matcher.                                                           *)
(***************************************************************************)

\* first loop of match_quote_to_drawing: the first quote whose stripped,
\* lower-cased Item_No equals drawing_no (0 when the loop falls through)
RECURSIVE ExactLoop(_, _, _)
ExactLoop(drawing_no, qs, i) ==
    IF i > Len(qs) THEN 0
    ELSE IF lower(strip(qs[i].Item_No)) = drawing_no THEN i
    ELSE ExactLoop(drawing_no, qs, i + 1)

\* the inner try placed around the loop: the first quote whose int() raises
\* ends the search
RECURSIVE NumericLoop_Abort(_, _, _)
NumericLoop_Abort(drawing_num, qs, i) ==
    IF i > Len(qs) THEN 0
    ELSE LET quote_num == py_int(re_sub_letters(strip(qs[i].Item_No)))
         IN  IF ~quote_num.ok THEN 0
             ELSE IF quote_num.val = drawing_num THEN i
             ELSE NumericLoop_Abort(drawing_num, qs, i + 1)

\* second loop: the first quote whose Item_No, letters removed, is an int
\* equal to drawing_num; a quote whose int() raises is passed over
RECURSIVE NumericLoop(_, _, _)
NumericLoop(drawing_num, qs, i) ==
    IF i > Len(qs) THEN 0
    ELSE LET quote_num == py_int(re_sub_letters(strip(qs[i].Item_No)))
         IN  IF quote_num.ok /\ quote_num.val = drawing_num THEN i
             ELSE NumericLoop(drawing_num, qs, i + 1)

\* the two passes the wrong way round: the numeric pass runs first
match_quote_to_drawing_NumericFirst(drawing_item, qs) ==
    LET drawing_no == lower(strip(drawing_item.No))
        drawing_num == py_int(re_sub_letters(drawing_no))
        numeric == IF drawing_num.ok THEN NumericLoop(drawing_num.val, qs, 1) ELSE 0
    IN  IF numeric # 0 THEN numeric ELSE ExactLoop(drawing_no, qs, 1)

\* match_quote_to_drawing(drawing_item, quotes): index of the returned quote
\* in quotes, 0 for None
match_quote_to_drawing(drawing_item, qs) ==
    LET drawing_no == lower(strip(drawing_item.No))
        exact == ExactLoop(drawing_no, qs, 1)
        drawing_num == py_int(re_sub_letters(drawing_no))
    IN  IF exact # 0 THEN exact
        ELSE IF drawing_num.ok THEN NumericLoop(drawing_num.val, qs, 1)
        ELSE 0


(***************************************************************************)
(* Status engine.                                                          *)
(***************************************************************************)

\* SUPPLIER_CODES
SUPPLIER_CODES ==
    [c \in 1..8 |->
        CASE c = 1 -> "IH SUPPLY / IH INSTALL"
          [] c = 2 -> "IH SUPPLY / IH INSTALL (DH EQUIPMENT)"
          [] c = 3 -> "IH SUPPLY / IH INSTALL (BIO MED)"
          [] c = 4 -> "IH SUPPLY / VENDOR INSTALL"
          [] c = 5 -> "CONTRACTOR SUPPLY / CONTRACTOR INSTALL"
          [] c = 6 -> "CONTRACTOR SUPPLY / VENDOR INSTALL"
          [] c = 7 -> "IH SUPPLY / CONTRACTOR INSTALL"
          [] c = 8 -> "EXISTING / RELOCATED EQUIPMENT"]

\* str(n) for an int, as a plain string
RECURSIVE NatToStr(_)
NatToStr(n) ==
    IF n < 10 THEN DigitChars[n + 1]
    ELSE NatToStr(n \div 10) \o DigitChars[(n % 10) + 1]

py_str(n) == IF n < 0 THEN "-" \o NatToStr(0 - n) ELSE NatToStr(n)

SPARE == <<"S","P","A","R","E">>

\* a slip in the message: the two quantities are reported the wrong way round
MatchedStatus_Swapped(item, q) ==
    IF q.Qty = item.Qty THEN <<"Quoted", None>>
    ELSE <<"Qty Mismatch",
           Some("Drawing: " \o py_str(q.Qty) \o ", Quote: " \o py_str(item.Qty))>>

\* the branch taken when a quote matched: Quoted or Qty Mismatch
MatchedStatus(item, q) ==
    IF q.Qty = item.Qty THEN <<"Quoted", None>>
    ELSE <<"Qty Mismatch",
           Some("Drawing: " \o py_str(item.Qty) \o ", Quote: " \o py_str(q.Qty))>>

\* a slip in the membership test: only code 5 is critical
UnmatchedStatus_Only5(cat) ==
    IF cat = Some(7)
        THEN <<"Needs Install", Some("IH supplies - needs install pricing")>>
    ELSE IF cat = Some(5) THEN <<"MISSING", Some("Critical - requires quote")>>
    ELSE <<"MISSING", Some("Not found in quotes")>>

\* the code-7 test left out: an unmatched code-7 item is a generic MISSING
UnmatchedStatus_No7(cat) ==
    IF cat \in {Some(5), Some(6)}
        THEN <<"MISSING", Some("Critical - requires quote")>>
    ELSE <<"MISSING", Some("Not found in quotes")>>

\* the branch taken when no quote matched
UnmatchedStatus(cat) ==
    IF cat = Some(7)
        THEN <<"Needs Install", Some("IH supplies - needs install pricing")>>
    ELSE IF cat \in {Some(5), Some(6)}
        THEN <<"MISSING", Some("Critical - requires quote")>>
    ELSE <<"MISSING", Some("Not found in quotes")>>

\* a reordering of the chain: the match is looked at before the supplier code
Classify_MatchFirst(item, m) ==
    LET cat == item.Category
    IN  IF m # None THEN MatchedStatus(item, Val(m))
        ELSE IF cat \in {Some(1), Some(2), Some(3)}
            THEN <<"IH Supply", Some("IH handles supply & install")>>
        ELSE IF cat = Some(8) THEN <<"Existing", Some("Existing/relocated")>>
        ELSE IF cat = None \/ upper(item.Description) = SPARE
            THEN <<"N/A", Some("Spare or placeholder")>>
        ELSE UnmatchedStatus(cat)

\* the code-8 test moved behind the match: a matched code-8 item is Quoted
Classify_ExistingAfterMatch(item, m) ==
    LET cat == item.Category
    IN  IF cat \in {Some(1), Some(2), Some(3)}
            THEN <<"IH Supply", Some("IH handles supply & install")>>
        ELSE IF cat = None \/ upper(item.Description) = SPARE
            THEN <<"N/A", Some("Spare or placeholder")>>
        ELSE IF m # None THEN MatchedStatus(item, Val(m))
        ELSE IF cat = Some(8) THEN <<"Existing", Some("Existing/relocated")>>
        ELSE UnmatchedStatus(cat)

\* the if/elif chain of analyze_drawing_vs_quotes for one item: <<status, issue>>.
\* m is the optional matched quote, item.Category the optional supplier code.
Classify(item, m) ==
    LET cat == item.Category
    IN  IF cat \in {Some(1), Some(2), Some(3)}
            THEN <<"IH Supply", Some("IH handles supply & install")>>
        ELSE IF cat = Some(8) THEN <<"Existing", Some("Existing/relocated")>>
        ELSE IF cat = None \/ upper(item.Description) = SPARE
            THEN <<"N/A", Some("Spare or placeholder")>>
        ELSE IF m # None THEN MatchedStatus(item, Val(m))
        ELSE UnmatchedStatus(cat)

\* the row analyze_drawing_vs_quotes appends for one item
AnalysisRow(item, qs) ==
    LET k == match_quote_to_drawing(item, qs)
        m == IF k = 0 THEN None ELSE Some(qs[k])
        cat == item.Category
        si == Classify(item, m)
    IN  [Drawing_No |-> item.No,
         New_Equip_Num |-> item.New_Equip_Num,
         Description |-> item.Description,
         Drawing_Qty |-> item.Qty,
         Category |-> cat,
         Category_Desc |-> IF cat # None /\ Val(cat) # 0 /\ Val(cat) \in DOMAIN SUPPLIER_CODES
                           THEN SUPPLIER_CODES[Val(cat)] ELSE "N/A",
         Quote_Item_No |-> IF m # None THEN Val(m).Item_No ELSE <<"-">>,
         Quote_Qty |-> IF m # None THEN Val(m).Qty ELSE 0,
         Unit_Price |-> IF m # None THEN Val(m).Unit_Price ELSE Float(0),
         Total_Price |-> IF m # None THEN Val(m).Total_Price ELSE Float(0),
         Quote_Source |-> IF m # None THEN Val(m).Source_File ELSE "-",
         Status |-> si[1],
         Issue |-> si[2]]

\* spare and placeholder items left out of the result
analyze_drawing_vs_quotes_SkipNA(schedule, qs) ==
    LET rows == [i \in DOMAIN schedule |-> AnalysisRow(schedule[i], qs)]
    IN  SelectSeq(rows, LAMBDA r : r.Status # "N/A")

\* analyze_drawing_vs_quotes(drawing_schedule, quotes): one row per item, in order
analyze_drawing_vs_quotes(schedule, qs) ==
    [i \in DOMAIN schedule |-> AnalysisRow(schedule[i], qs)]


\* a drawing item as parse_equipment_from_text / extract_equipment_from_dataframe append it
DrawingItem(no, desc, qty, cat) ==
    [No |-> no, New_Equip_Num |-> <<"-">>, Description |-> desc, Qty |-> qty, Category |-> cat]

\* a quote item as parse_quote_from_text / extract_quotes_from_dataframe append it
QuoteItem(no, desc, qty, unit, total, file) ==
    [Item_No |-> no, Description |-> desc, Qty |-> qty,
     Unit_Price |-> unit, Total_Price |-> total, Source_File |-> file]

(***************************************************************************)
(* Quote extraction from a table.  A table is its column names and its     *)
(* rows; a cell is the text str() gives for it ("nan" for a missing one).  *)
(***************************************************************************)

\* col_map of extract_quotes_from_dataframe
quote_col_map ==
    [item |-> {<<"i","t","e","m">>, <<"i","t","e","m"," ","n","o">>, <<"n","o">>, <<"n","o",".">>},
     description |-> {<<"d","e","s","c","r","i","p","t","i","o","n">>, <<"d","e","s","c">>, <<"e","q","u","i","p","m","e","n","t">>, <<"n","a","m","e">>},
     qty |-> {<<"q","t","y">>, <<"q","u","a","n","t","i","t","y">>},
     unit_price |-> {<<"s","e","l","l">>, <<"u","n","i","t"," ","p","r","i","c","e">>, <<"p","r","i","c","e">>},
     total_price |-> {<<"s","e","l","l"," ","t","o","t","a","l">>, <<"t","o","t","a","l">>, <<"t","o","t","a","l"," ","p","r","i","c","e">>, <<"a","m","o","u","n","t">>}]

\* df.columns.astype(str).str.strip().str.lower()
normalize_columns(columns) == [j \in DOMAIN columns |-> lower(strip(columns[j]))]

\* the inner loop that fills found[k]: the first column whose name is one of
\* the options, 0 when the field is left out of found
RECURSIVE FindColumn(_, _, _)
FindColumn(columns, opts, j) ==
    IF j > Len(columns) THEN 0
    ELSE IF strip(lower(columns[j])) \in opts THEN j
    ELSE FindColumn(columns, opts, j + 1)

\* found of extract_quotes_from_dataframe
quote_found(columns) ==
    [k \in DOMAIN quote_col_map |-> FindColumn(columns, quote_col_map[k], 1)]

\* str(row.get(found.get(k, ''), default))
row_get(row, j, default) == IF j = 0 THEN default ELSE row[j]

\* body of the row loop of extract_quotes_from_dataframe: the quote item the
\* row appends, None for a row that is skipped (continue, or an exception)
ExtractQuoteRow(found, row, filename) ==
    LET desc == strip(row_get(row, found.description, <<>>))
        item == strip(row_get(row, found.item, <<>>))
        qty_val == strip(replace_char(replace_ea(row_get(row, found.qty, <<"1">>)), ","))
        qty_f == py_float(qty_val)
        qty_i == int_of_float(qty_f.f)
        qty == IF qty_val # <<>> THEN qty_i.val ELSE 1
        up_val == strip(replace_char(replace_char(row_get(row, found.unit_price, <<"0">>), "$"), ","))
        up_f == py_float(up_val)
        up == IF up_val # <<>> THEN up_f.f ELSE Float(0)
        tp_val == strip(replace_char(replace_char(row_get(row, found.total_price, <<"0">>), "$"), ","))
        tp_f == py_float(tp_val)
        tp == IF tp_val # <<>> THEN tp_f.f ELSE float_times_int(up, qty)
    IN  IF desc = <<>> \/ lower(desc) \in {<<"n","a","n">>, <<>>, <<"n","i","c">>} THEN None
        ELSE IF qty_val # <<>> /\ ~(qty_f.ok /\ qty_i.ok) THEN None
        ELSE IF up_val # <<>> /\ ~up_f.ok THEN None
        ELSE IF tp_val # <<>> /\ ~tp_f.ok THEN None
        ELSE Some(QuoteItem(item, desc, qty, up, tp, filename))

RECURSIVE ExtractQuoteRows(_, _, _, _)
ExtractQuoteRows(found, rows, i, filename) ==
    IF i > Len(rows) THEN <<>>
    ELSE ExtractQuoteRow(found, rows[i], filename) \o ExtractQuoteRows(found, rows, i + 1, filename)

\* extract_quotes_from_dataframe(df, filename)
extract_quotes_from_dataframe(df, filename) ==
    ExtractQuoteRows(quote_found(normalize_columns(df.columns)), df.rows, 1, filename)

\* the de-duplication loop of process_quote_file: the first quote of each
\* non-empty Item_No
RECURSIVE UniqueQuotes(_, _)
UniqueQuotes(qs, seen) ==
    IF qs = <<>> THEN <<>>
    ELSE IF Head(qs).Item_No # <<>> /\ Head(qs).Item_No \notin seen
        THEN <<Head(qs)>> \o UniqueQuotes(Tail(qs), seen \cup {Head(qs).Item_No})
    ELSE UniqueQuotes(Tail(qs), seen)

RECURSIVE ExtractSheets(_, _)
ExtractSheets(sheets, filename) ==
    IF sheets = <<>> THEN <<>>
    ELSE extract_quotes_from_dataframe(Head(sheets), filename) \o ExtractSheets(Tail(sheets), filename)

\* process_quote_file(parsed_data) for an excel or csv file
process_quote_file(parsed_data) ==
    UniqueQuotes(
        IF parsed_data.type \in {"excel", "csv"} /\ parsed_data.sheets # <<>>
        THEN ExtractSheets(parsed_data.sheets, parsed_data.filename)
        ELSE <<>>,
        {})

(***************************************************************************)
(* Drawing extraction from a table.                                        *)
(***************************************************************************)

\* col_map of extract_equipment_from_dataframe
drawing_col_map ==
    [no |-> {<<"n","o">>, <<"n","o",".">>, <<"i","t","e","m">>, <<"i","t","e","m"," ","#">>, <<"i","t","e","m"," ","n","o">>, <<"i","t","e","m"," ","n","o",".">>, <<"n","u","m","b","e","r">>, <<"#">>},
     new_equip_num |-> {<<"n","e","w"," ","e","q","u","i","p","m","e","n","t"," ","n","u","m","b","e","r">>, <<"e","q","u","i","p","m","e","n","t"," ","n","u","m","b","e","r">>, <<"e","q","u","i","p"," ","n","u","m">>, <<"e","q","u","i","p"," ","n","o">>},
     description |-> {<<"d","e","s","c","r","i","p","t","i","o","n">>, <<"d","e","s","c">>, <<"e","q","u","i","p","m","e","n","t">>, <<"n","a","m","e">>, <<"i","t","e","m"," ","d","e","s","c","r","i","p","t","i","o","n">>},
     qty |-> {<<"q","t","y">>, <<"q","t","y",".">>, <<"q","u","a","n","t","i","t","y">>, <<"c","o","u","n","t">>},
     category |-> {<<"c","a","t","e","g","o","r","y">>, <<"c","a","t">>, <<"s","u","p","p","l","i","e","r"," ","c","o","d","e">>, <<"c","o","d","e">>, <<"s","u","p","p","l","i","e","r">>}]

\* o in col: col has o as a substring
IsSubstring(o, col) ==
    \E i \in 1..(Len(col) - Len(o) + 1) : SubSeq(col, i, i + Len(o) - 1) = o

\* the inner loop that fills found[key]: the first column whose name is one
\* of the options or contains one of them, 0 when key is left out of found
RECURSIVE FindDrawingColumn(_, _, _)
FindDrawingColumn(columns, opts, j) ==
    IF j > Len(columns) THEN 0
    ELSE IF strip(lower(columns[j])) \in opts
            \/ \E o \in opts : IsSubstring(o, lower(columns[j])) THEN j
    ELSE FindDrawingColumn(columns, opts, j + 1)

\* found of extract_equipment_from_dataframe, the positional fallback included
drawing_found(columns) ==
    LET found == [k \in DOMAIN drawing_col_map |->
                    FindDrawingColumn(columns, drawing_col_map[k], 1)]
    IN  IF (found.no = 0 \/ found.description = 0) /\ Len(columns) >= 3
        THEN [found EXCEPT !.no = 1, !.new_equip_num = 2, !.description = 3]
        ELSE found

\* re.sub(r'[^\d.]', '', s) and re.sub(r'[^\d]', '', s)
re_sub_non_digit_dot(s) == SelectSeq(s, LAMBDA c : IsDigit(c) \/ c = ".")
re_sub_non_digit(s) == SelectSeq(s, LAMBDA c : IsDigit(c))

\* the qty of a row: int(float(re.sub(...)) or 1), 1 when that raises
drawing_qty(found, row) ==
    LET f == py_float(re_sub_non_digit_dot(row_get(row, found.qty, <<"1">>)))
    IN  IF found.qty = 0 \/ ~f.ok THEN 1
        ELSE IF f.f.c = 0 THEN 1
        ELSE int_of_float(f.f).val

\* the cat of a row: int(float(re.sub(...))), None when that raises
drawing_cat(found, row) ==
    LET f == py_float(re_sub_non_digit(row_get(row, found.category, <<>>)))
    IN  IF found.category = 0 \/ ~f.ok THEN None
        ELSE Some(int_of_float(f.f).val)

\* body of the row loop of extract_equipment_from_dataframe: the drawing item
\* the row appends, None for a row that is skipped
ExtractEquipmentRow(found, row) ==
    LET no == strip(row_get(row, found.no, <<>>))
        desc == strip(row_get(row, found.description, <<>>))
        equip_cell == strip(row_get(row, found.new_equip_num, <<"-">>))
        equip_num == IF equip_cell # <<>> /\ lower(equip_cell) \notin {<<"n","a","n">>, <<>>}
                     THEN equip_cell ELSE <<"-">>
    IN  IF \/ no = <<>>
           \/ lower(no) \in {<<"n","a","n">>, <<>>, <<"n","o">>, <<"n","o",".">>, <<"i","t","e","m">>}
           \/ desc = <<>>
           \/ lower(desc) \in {<<"n","a","n">>, <<>>, <<"d","e","s","c","r","i","p","t","i","o","n">>}
        THEN None
        ELSE Some([DrawingItem(no, desc, drawing_qty(found, row), drawing_cat(found, row))
                      EXCEPT !.New_Equip_Num = equip_num])

RECURSIVE ExtractEquipmentRows(_, _, _)
ExtractEquipmentRows(found, rows, i) ==
    IF i > Len(rows) THEN <<>>
    ELSE ExtractEquipmentRow(found, rows[i]) \o ExtractEquipmentRows(found, rows, i + 1)

\* df.dropna(how='all'): the rows whose every cell is missing are removed
dropna_all(rows) ==
    SelectSeq(rows, LAMBDA row : \E j \in DOMAIN row : row[j] # <<"n","a","n">>)

\* an empty list returned where the code returns None
extract_equipment_from_dataframe_EmptyList(df) ==
    LET found == drawing_found(normalize_columns(df.columns))
    IN  IF found.no = 0 \/ found.description = 0 THEN None
        ELSE Some(ExtractEquipmentRows(found, dropna_all(df.rows), 1))

\* extract_equipment_from_dataframe(df): None or the list of drawing items
extract_equipment_from_dataframe(df) ==
    LET found == drawing_found(normalize_columns(df.columns))
        equipment_list == ExtractEquipmentRows(found, dropna_all(df.rows), 1)
    IN  IF found.no = 0 \/ found.description = 0 THEN None
        ELSE IF equipment_list # <<>> THEN Some(equipment_list)
        ELSE None

(***************************************************************************)
(* Drawing extraction from the text of a PDF.  The text is the sequence of *)
(* its lines (text.split('\n')).                                           *)
(***************************************************************************)
SKIP_WORDS ==
    {
     <<"e","q","u","i","p","m","e","n","t"," ","l","i","s","t">>, <<"c","a","t","e","g","o","r","y">>,
     <<"e","l","e","c","t","r","i","c","a","l">>, <<"m","e","c","h","a","n","i","c","a","l">>,
     <<"d","e","s","c","r","i","p","t","i","o","n">>, <<"l","o","a","d">>,
     <<"v","o","l","t","s">>, <<"w","a","t","e","r">>,
     <<"w","a","s","t","e">>, <<"g","a","s">>,
     <<"e","x","h","a","u","s","t">>, <<"p","r","o","j","e","c","t">>,
     <<"t","i","t","l","e">>, <<"d","r","a","w","i","n","g">>,
     <<"r","e","v","i","s","i","o","n">>, <<"z","e","i","d","l","e","r">>,
     <<"c","o","p","y","r","i","g","h","t">>, <<"i","s","s","u","e","d">>,
     <<"d","a","t","e">>, <<"k","i","t","c","h","e","n"," ","e","q","u","i","p","m","e","n","t">>,
     <<"t","h","i","s"," ","p","l","a","n">>, <<"a","l","l"," ","s","e","r","v","i","c","e","s">>,
     <<"e","l","e","c","t","r","i","c","a","l"," ","c","o","n","t","r","a","c","t","o","r">>, <<"m","e","c","h","a","n","i","c","a","l"," ","c","o","n","t","r","a","c","t","o","r">>,
     <<"k","i","t","c","h","e","n"," ","c","o","n","t","r","a","c","t","o","r">>, <<"u","p","o","n"," ","c","o","m","p","l","e","t","i","o","n">>,
     <<"a","t"," ","t","h","i","s"," ","p","o","i","n","t">>, <<"p","r","o","j","e","c","t"," ","a","d","d","r","e","s","s">>,
     <<"s","u","p","p","l","i","e","r"," ","c","o","d","e">>, <<"n","o","t","e",":">>,
     <<"i","n","t","e","r","i","o","r"," ","h","e","a","l","t","h">>, <<"a","u","t","o","d","e","s","k"," ","d","o","c","s">>,
     <<"n","e","w"," ","e","q","u","i","p","m","e","n","t">>, <<"c","o","n","n","."," ","t","y","p","e">>,
     <<"e","l","e","c","."," ","r","i">> }

\* the prefixes of the two startswith tests of the line loop
LowerSkipPrefixes ==
    {
     <<"e","1"," ">>, <<"e","2"," ">>, <<"e","3"," ">>, <<"e","4"," ">>, <<"e","5"," ">>, <<"e","6"," ">>, <<"e","7"," ">>,
     <<"m","1"," ">>, <<"m","2"," ">>, <<"m","3"," ">>, <<"m","4"," ">>, <<"m","5"," ">>, <<"m","6"," ">> }

SkipPrefixes ==
    {
     <<"N","o",".">>, <<"N","E","W"," ">>, <<"1"," ",":">>, <<"K","-">>, <<"3","0","0",",">>, <<"T"," ","4","0","3">> }

\* the alternatives of r'^(IH SUPPLY|CONTRACTOR|EXISTING)' and the keyword
\* alternatives of elec_re, both matched ignoring case
RestSkipPrefixes ==
    {
     <<"I","H"," ","S","U","P","P","L","Y">>, <<"C","O","N","T","R","A","C","T","O","R">>, <<"E","X","I","S","T","I","N","G">> }

ElecKeywords ==
    {
     <<"J","U","N","C","T","I","O","N">>, <<"R","E","C","E","P","T","A","C","L","E">>, <<"S","E","E"," ","N","O","T","E">>, <<"S","E","R","V","I","C","E","S">>,
     <<"L","I","G","H","T","S">>, <<"F","F","D">>, <<"S","T","U","B","-","U","P">>, <<"W","A","S","T","E"," ","T","O">> }

\* s.startswith(p)
startswith(s, p) == Len(s) >= Len(p) /\ SubSeq(s, 1, Len(p)) = p

\* the index of the last character of the longest run of digits (of
\* whitespace) of s that starts at i; i - 1 when there is no such run
RECURSIVE DigitRunEnd(_, _)
DigitRunEnd(s, i) ==
    IF i <= Len(s) /\ IsDigit(s[i]) THEN DigitRunEnd(s, i + 1) ELSE i - 1

RECURSIVE SpaceRunEnd(_, _)
SpaceRunEnd(s, i) ==
    IF i <= Len(s) /\ IsSpace(s[i]) THEN SpaceRunEnd(s, i + 1) ELSE i - 1

\* the index of the first character of the longest run of digits (of
\* whitespace) of s that ends at j; j + 1 when there is no such run
RECURSIVE DigitRunStart(_, _)
DigitRunStart(s, j) ==
    IF j >= 1 /\ IsDigit(s[j]) THEN DigitRunStart(s, j - 1) ELSE j + 1

RECURSIVE SpaceRunStart(_, _)
SpaceRunStart(s, j) ==
    IF j >= 1 /\ IsSpace(s[j]) THEN SpaceRunStart(s, j - 1) ELSE j + 1

\* item_re.match(line), r'^(\d{1,2}[a-z]?)\s+(.+)$' ignoring case, on a
\* stripped line: one or two digits, at most one letter, whitespace, the rest
item_re(line) ==
    LET d == DigitRunEnd(line, 1)
        e == IF d + 1 <= Len(line) /\ IsLetter(line[d + 1]) THEN d + 1 ELSE d
        sp == SpaceRunEnd(line, e + 1)
    IN  IF d \in {1, 2} /\ sp > e /\ sp < Len(line)
        THEN [ok |-> TRUE, g1 |-> SubSeq(line, 1, e), g2 |-> SubSeq(line, sp + 1, Len(line))]
        ELSE [ok |-> FALSE, g1 |-> <<>>, g2 |-> <<>>]

\* equip_num_re.match(rest), r'^(\d{4,}\.?\d*)\s+(.+)$', on a stripped rest:
\* four digits or more, at most one point followed by digits, whitespace,
\* the rest
equip_num_re(rest) ==
    LET d == DigitRunEnd(rest, 1)
        e == IF d + 1 <= Len(rest) /\ rest[d + 1] = "." THEN DigitRunEnd(rest, d + 2) ELSE d
        sp == SpaceRunEnd(rest, e + 1)
    IN  IF d >= 4 /\ sp > e /\ sp < Len(rest)
        THEN [ok |-> TRUE, g1 |-> SubSeq(rest, 1, e), g2 |-> SubSeq(rest, sp + 1, Len(rest))]
        ELSE [ok |-> FALSE, g1 |-> <<>>, g2 |-> <<>>]

\* one of the alternatives of elec_re matches at position i of s
ElecMatchAt(s, i) ==
    LET d == DigitRunEnd(s, i)
        sp == SpaceRunEnd(s, d + 2)
        d2 == DigitRunEnd(s, sp + 1)
    IN  \/ /\ d >= i                        \* \d+A\s+\d+V
           /\ d + 1 <= Len(s) /\ s[d + 1] \in {"A", "a"}
           /\ sp >= d + 2
           /\ d2 >= sp + 1
           /\ d2 + 1 <= Len(s) /\ s[d2 + 1] \in {"V", "v"}
        \/ /\ d >= i                        \* \d+KW
           /\ d + 2 <= Len(s)
           /\ s[d + 1] \in {"K", "k"} /\ s[d + 2] \in {"W", "w"}
        \/ \E k \in ElecKeywords :
            /\ i + Len(k) - 1 <= Len(s)
            /\ upper(SubSeq(s, i, i + Len(k) - 1)) = k

\* elec_re.search(s).start() + 1, 0 when there is no match
elec_re(s) ==
    LET starts == {i \in DOMAIN s : ElecMatchAt(s, i)}
    IN  IF starts = {} THEN 0 ELSE CHOOSE i \in starts : \A j \in starts : i <= j

\* qty_cat_re.search(s) and qty_dash_re.search(s) on a stripped s,
\* r'\s+(\d+)\s+([1-8])\s*$' and r'\s+(\d+)\s+(-)\s*$': s ends in whitespace,
\* digits, whitespace and one character of last; start is where the match
\* begins, g1 the digits and g2 the last character
qty_tail_re(s, last) ==
    LET n == Len(s)
        sp2 == SpaceRunStart(s, n - 1)
        d == DigitRunStart(s, sp2 - 1)
        sp1 == SpaceRunStart(s, d - 1)
    IN  IF /\ n >= 1 /\ s[n] \in last
           /\ sp2 <= n - 1
           /\ d <= sp2 - 1
           /\ sp1 <= d - 1
        THEN [ok |-> TRUE, start |-> sp1, g1 |-> SubSeq(s, d, sp2 - 1), g2 |-> s[n]]
        ELSE [ok |-> FALSE, start |-> 0, g1 |-> <<>>, g2 |-> ""]

qty_cat_re(s) == qty_tail_re(s, {"1", "2", "3", "4", "5", "6", "7", "8"})
qty_dash_re(s) == qty_tail_re(s, {"-"})

\* ' '.join(s.split()): surrounding whitespace dropped, every inner run of
\* whitespace made one blank
RECURSIVE CollapseSpaces(_)
CollapseSpaces(s) ==
    IF s = <<>> THEN <<>>
    ELSE IF ~IsSpace(Head(s)) THEN <<Head(s)>> \o CollapseSpaces(Tail(s))
    ELSE IF Tail(s) # <<>> /\ IsSpace(Head(Tail(s))) THEN CollapseSpaces(Tail(s))
    ELSE <<" ">> \o CollapseSpaces(Tail(s))

join_split(s) == CollapseSpaces(strip(s))

\* the end of the body of the line loop: the description is tidied and the
\* item appended, unless the description is shorter than three characters
AppendEquipment(item_no, equip_num, raw_description, qty, category) ==
    LET description == join_split(strip(raw_description))
    IN  IF Len(description) < 3 THEN None
        ELSE Some([DrawingItem(item_no,
                               IF upper(description) \in {SPARE, <<"-">>} THEN SPARE ELSE description,
                               qty, category)
                      EXCEPT !.New_Equip_Num = equip_num])

\* the quantity and the category are read from the end of before_elec
ParseQtyCategory(item_no, equip_num, before_elec) ==
    LET qty_cat == qty_cat_re(before_elec)
        qty_dash == qty_dash_re(before_elec)
    IN  IF qty_cat.ok
            THEN AppendEquipment(item_no, equip_num,
                                 SubSeq(before_elec, 1, qty_cat.start - 1),
                                 py_int(qty_cat.g1).val, Some(py_int(<<qty_cat.g2>>).val))
        ELSE IF qty_dash.ok
            THEN AppendEquipment(item_no, equip_num,
                                 SubSeq(before_elec, 1, qty_dash.start - 1),
                                 py_int(qty_dash.g1).val, None)
        ELSE None

\* the electrical columns are cut off rest
ParseBeforeElec(item_no, equip_num, rest) ==
    LET elec_match == elec_re(rest)
    IN  ParseQtyCategory(item_no, equip_num,
            IF elec_match # 0 THEN strip(SubSeq(rest, 1, elec_match - 1)) ELSE rest)

\* a leading "- " is taken off rest and stands for no equipment number
ParseDash(item_no, equip_num, rest) ==
    IF startswith(rest, <<"-", " ">>)
    THEN ParseBeforeElec(item_no, <<"-">>, strip(SubSeq(rest, 3, Len(rest))))
    ELSE ParseBeforeElec(item_no, equip_num, rest)

\* the equipment number is taken off rest
ParseEquipNum(item_no, rest) ==
    LET equip_match == equip_num_re(rest)
    IN  IF equip_match.ok THEN ParseDash(item_no, equip_match.g1, strip(equip_match.g2))
        ELSE ParseDash(item_no, <<"-">>, rest)

\* the tests on the item number and on the start of rest
ParseItem(item_no, rest) ==
    LET item_num == py_int(re_sub_letters(item_no))
    IN  IF ~item_num.ok \/ item_num.val > 90 THEN None
        ELSE IF \E pre \in RestSkipPrefixes : startswith(upper(rest), pre) THEN None
        ELSE ParseEquipNum(item_no, rest)

\* the tests on the whole line and the match of item_re
ParseStrippedLine(line) ==
    LET item_match == item_re(line)
    IN  IF line = <<>> \/ Len(line) < 8 THEN None
        ELSE IF \E sw \in SKIP_WORDS : IsSubstring(sw, lower(line)) THEN None
        ELSE IF \E pre \in LowerSkipPrefixes : startswith(lower(line), pre) THEN None
        ELSE IF \E pre \in SkipPrefixes : startswith(line, pre) THEN None
        ELSE IF ~item_match.ok THEN None
        ELSE ParseItem(item_match.g1, strip(item_match.g2))

\* body of the line loop of parse_equipment_from_text: the drawing item the
\* line appends, None for a line that is skipped
ParseEquipmentLine(raw) == ParseStrippedLine(strip(raw))

\* parse_equipment_from_text(text): the items of the lines, in order
RECURSIVE parse_equipment_from_text(_)
parse_equipment_from_text(lines) ==
    IF lines = <<>> THEN <<>>
    ELSE ParseEquipmentLine(Head(lines)) \o parse_equipment_from_text(Tail(lines))

\* the de-duplication loop of process_drawing_file: the first item of each No
RECURSIVE UniqueEquipment(_, _)
UniqueEquipment(items, seen) ==
    IF items = <<>> THEN <<>>
    ELSE IF Head(items).No \notin seen
        THEN <<Head(items)>> \o UniqueEquipment(Tail(items), seen \cup {Head(items).No})
    ELSE UniqueEquipment(Tail(items), seen)

\* the loop over the sheets: what each sheet gives, appended when truthy
RECURSIVE ExtractEquipmentSheets(_)
ExtractEquipmentSheets(sheets) ==
    IF sheets = <<>> THEN <<>>
    ELSE LET ext == extract_equipment_from_dataframe(Head(sheets))
         IN  (IF ext # None THEN Val(ext) ELSE <<>>) \o ExtractEquipmentSheets(Tail(sheets))

\* process_drawing_file(parsed_data)
process_drawing_file(parsed_data) ==
    UniqueEquipment(
        IF parsed_data.type = "pdf" /\ parsed_data.text # <<>>
            THEN parse_equipment_from_text(parsed_data.text)
        ELSE IF parsed_data.type \in {"excel", "csv"} /\ parsed_data.sheets # <<>>
            THEN ExtractEquipmentSheets(parsed_data.sheets)
        ELSE <<>>,
        {})

(***************************************************************************)
(* Inputs.  Item numbers and descriptions are the stripped, non-empty      *)
(* strings extraction stores.                                              *)
(***************************************************************************)
MaxQuotes == 2
MaxAnalysisQuotes == 1
MaxSchedule == 1
MaxQty == 2
MaxCategory == 9
MaxRows == 2

\* no file is being uploaded
NoFile == [type |-> "none", filename |-> "", sheets |-> <<>>]

WALK_IN == <<"W","A","L","K"," ","I","N">>

\* all sequences over S of length 0..n
RECURSIVE SeqsUpTo(_, _)
SeqsUpTo(S, n) ==
    IF n = 0 THEN {<<>>}
    ELSE LET shorter == SeqsUpTo(S, n - 1)
         IN  shorter \cup {Append(q, x) : q \in {t \in shorter : Len(t) = n - 1}, x \in S}

\* identifiers of the matcher runs: plain, letter-suffixed in both cases,
\* zero-padded, signed, ranged, dotted, letters only, with an inner blank
MatchIds ==
    { <<"1">>, <<"1","a">>, <<"1","A">>, <<"2">>, <<"0","1">>, <<"-","1">>,
      <<"1","-","2">>, <<"1",".">>, <<"1","2">>, <<"a">>, <<"1"," ","a">>, <<"A","1">> }

MatchDrawingItems == {DrawingItem(no, WALK_IN, 1, Some(5)) : no \in MatchIds}
MatchQuoteItems == {QuoteItem(no, WALK_IN, 1, Float(100), Float(100), "q1") : no \in MatchIds}

(***************************************************************************)
(* Matcher runs: one call of match_quote_to_drawing on a drawing item and  *)
(* a list of quote items.                                                  *)
(***************************************************************************)
InitMatch ==
    /\ pc = "match_call"
    /\ drawing_schedule \in {<<d>> : d \in MatchDrawingItems}
    /\ quotes \in SeqsUpTo(MatchQuoteItems, MaxQuotes)
    /\ matched = 0
    /\ analysis = <<>>
    /\ extracted = None
    /\ quotes_data = <<>>
    /\ drawing_filename = None
    /\ column_map = None
    /\ quote_scan = None
    /\ total_quoted = None
    /\ load_log = <<>>
    /\ category_enforcement = TRUE
    /\ parsed = NoFile

Match ==
    /\ pc = "match_call"
    /\ matched' = match_quote_to_drawing(drawing_schedule[1], quotes)
    /\ pc' = "match_return"
    /\ UNCHANGED <<drawing_schedule, quotes, analysis, category_enforcement, parsed, extracted,
                 quotes_data, drawing_filename, column_map, quote_scan, total_quoted, load_log>>

NextMatch == Match

SpecMatch == InitMatch /\ [][NextMatch]_vars

(***************************************************************************)
(* Analysis runs: one call of analyze_drawing_vs_quotes, as the Dashboard, *)
(* Analysis, Summary and Export tabs make it.  The caller's enforcement    *)
(* setting is part of the run; the call passes the schedule and the quotes *)
(* only.                                                                   *)
(***************************************************************************)
AnalysisDescriptions == {<<"S","p","a","r","e">>, WALK_IN}

AnalysisDrawingItems ==
    {DrawingItem(<<"1","a">>, desc, qty, cat) :
        desc \in AnalysisDescriptions, qty \in 1..MaxQty,
        cat \in {None} \cup {Some(c) : c \in 0..MaxCategory}}

\* quotes that match "1a" exactly, numerically only, or not at all; the
\* prices tell the quotes apart
AnalysisQuoteItems ==
    {QuoteItem(<<"1","A">>, WALK_IN, qty, Float(700), Float(700 * qty), "q1") : qty \in 1..MaxQty}
    \cup {QuoteItem(<<"1">>, WALK_IN, qty, Float(500), Float(500 * qty), "q1") : qty \in 1..MaxQty}
    \cup {QuoteItem(<<"3">>, WALK_IN, qty, Float(300), Float(300 * qty), "q2") : qty \in 1..MaxQty}

InitAnalyze ==
    /\ pc = "analyze_call"
    /\ drawing_schedule \in SeqsUpTo(AnalysisDrawingItems, MaxSchedule) \ {<<>>}
    /\ quotes \in SeqsUpTo(AnalysisQuoteItems, MaxAnalysisQuotes)
    /\ category_enforcement \in BOOLEAN
    /\ matched = 0
    /\ analysis = <<>>
    /\ extracted = None
    /\ quotes_data = <<>>
    /\ drawing_filename = None
    /\ column_map = None
    /\ quote_scan = None
    /\ total_quoted = None
    /\ load_log = <<>>
    /\ parsed = NoFile

Analyze ==
    /\ pc = "analyze_call"
    /\ analysis' = analyze_drawing_vs_quotes(drawing_schedule, quotes)
    /\ pc' = "analyze_return"
    /\ UNCHANGED <<drawing_schedule, quotes, matched, category_enforcement, parsed, extracted,
                 quotes_data, drawing_filename, column_map, quote_scan, total_quoted, load_log>>

NextAnalyze == Analyze

SpecAnalyze == InitAnalyze /\ [][NextAnalyze]_vars


(***************************************************************************)
(* Schedule runs: one call of analyze_drawing_vs_quotes on a schedule of   *)
(* several items.                                                          *)
(***************************************************************************)
MaxScheduleItems == 2

\* items that differ in number, description, quantity and supplier code
ScheduleDrawingItems ==
    { DrawingItem(<<"1","a">>, WALK_IN, 1, Some(5)),
      DrawingItem(<<"2">>, <<"S","p","a","r","e">>, 2, None),
      DrawingItem(<<"3">>, WALK_IN, 2, Some(1)),
      DrawingItem(<<"4">>, <<"-">>, 1, Some(7)),
      DrawingItem(<<"5">>, WALK_IN, 1, Some(8)) }

InitSchedule ==
    /\ pc = "analyze_call"
    /\ drawing_schedule \in SeqsUpTo(ScheduleDrawingItems, MaxScheduleItems) \ {<<>>}
    /\ quotes \in SeqsUpTo(AnalysisQuoteItems, MaxAnalysisQuotes)
    /\ category_enforcement = TRUE
    /\ matched = 0
    /\ analysis = <<>>
    /\ extracted = None
    /\ quotes_data = <<>>
    /\ drawing_filename = None
    /\ column_map = None
    /\ quote_scan = None
    /\ total_quoted = None
    /\ load_log = <<>>
    /\ parsed = NoFile

SpecSchedule == InitSchedule /\ [][NextAnalyze]_vars

(***************************************************************************)
(* Quote-file runs: a csv quote file is uploaded on the Upload tab and the *)
(* Dashboard tab analyses the schedule against what was stored.            *)
(***************************************************************************)
COOLER == <<"C","O","O","L","E","R">>
NIC == <<"N","I","C">>
NIC_BY_OWNER == <<"N","i","c"," ","-"," ","b","y"," ","o","w","n","e","r">>

\* column names as the file has them
QuoteColumns == <<<<" ","I","t","e","m">>, <<"D","e","s","c","r","i","p","t","i","o","n">>, <<"Q","t","y">>, <<"S","e","l","l">>, <<"S","e","l","l"," ","T","o","t","a","l">>>>

\* cells of a row: a plain item number, one no drawing item has, a range
\* with a hyphen and one with an en dash; NIC and priced descriptions
QuoteRowCells ==
    { <<item, desc, qty, <<"$","5",".","0","0">>, <<"$","1",",","0","1","0",".","0","0">>>> :
        item \in {<<"1","5">>, <<"7">>, <<"1","1","-","2","3">>, <<"1","4",EnDash,"1","6">>},
        desc \in {NIC, NIC_BY_OWNER, COOLER, <<"n","a","n">>},
        qty \in {<<"1">>, <<"2"," ","e","a">>} }

QuoteFiles ==
    { [type |-> "csv", filename |-> "q1.csv",
       sheets |-> <<[columns |-> QuoteColumns, rows |-> rows]>>] :
        rows \in SeqsUpTo(QuoteRowCells, MaxRows) }

QuoteFileDrawingItems ==
    {DrawingItem(<<"1","5">>, WALK_IN, 1, cat) : cat \in {Some(4), Some(6)}}

Init ==
    /\ pc = "upload_quotes"
    /\ parsed \in QuoteFiles
    /\ drawing_schedule \in {<<d>> : d \in QuoteFileDrawingItems}
    /\ quotes = <<>>
    /\ matched = 0
    /\ analysis = <<>>
    /\ extracted = None
    /\ quotes_data = <<>>
    /\ drawing_filename = None
    /\ column_map = None
    /\ quote_scan = None
    /\ total_quoted = None
    /\ load_log = <<>>
    /\ category_enforcement = TRUE

\* the quote uploader of the Upload tab for one new file: the batch is stored
\* when it is not empty
UploadQuotes ==
    /\ pc = "upload_quotes"
    /\ quotes' = process_quote_file(parsed)
    /\ pc' = "uploaded"
    /\ UNCHANGED <<drawing_schedule, matched, analysis, category_enforcement, parsed, extracted,
                 quotes_data, drawing_filename, column_map, quote_scan, total_quoted, load_log>>

\* the Dashboard tab: it analyses when a schedule and a quote batch are held
Dashboard ==
    /\ pc = "uploaded"
    /\ drawing_schedule # <<>>
    /\ quotes # <<>>
    /\ analysis' = analyze_drawing_vs_quotes(drawing_schedule, quotes)
    /\ pc' = "analyze_return"
    /\ UNCHANGED <<drawing_schedule, quotes, matched, category_enforcement, parsed, extracted,
                 quotes_data, drawing_filename, column_map, quote_scan, total_quoted, load_log>>

Next == UploadQuotes \/ Dashboard

Spec == Init /\ [][Next]_vars

(***************************************************************************)
(* Priced quote files: the rows differ in their quantity, unit price and   *)
(* total cells; a cell is a number, a zero, a missing value or a note.     *)
(***************************************************************************)
MaxPriceRows == 2

TBD == <<"T","B","D">>

PriceRowCells ==
    { <<item, COOLER, qty, unit, total>> :
        item \in {<<"1","5">>, <<"1","6">>},
        qty \in {<<"1">>, <<"2"," ","e","a">>, TBD},
        unit \in {<<"$","5",".","0","0">>, <<"0">>, TBD},
        total \in {<<"$","1","0",".","0","0">>, <<"0">>, <<"n","a","n">>} }

PriceFiles ==
    { [type |-> "csv", filename |-> "q1.csv",
       sheets |-> <<[columns |-> QuoteColumns, rows |-> rows]>>] :
        rows \in SeqsUpTo(PriceRowCells, MaxPriceRows) }

InitPrices ==
    /\ pc = "upload_quotes"
    /\ parsed \in PriceFiles
    /\ drawing_schedule \in {<<d>> : d \in QuoteFileDrawingItems}
    /\ quotes = <<>>
    /\ matched = 0
    /\ analysis = <<>>
    /\ extracted = None
    /\ quotes_data = <<>>
    /\ drawing_filename = None
    /\ column_map = None
    /\ quote_scan = None
    /\ total_quoted = None
    /\ load_log = <<>>
    /\ category_enforcement = TRUE

SpecPrices == InitPrices /\ [][Next]_vars

(***************************************************************************)
(* Drawing-file runs: a drawing file, a table or the text of a PDF, is     *)
(* uploaded on the Upload tab.                                             *)
(***************************************************************************)
MaxDrawingRows == 2
MaxTextLines == 2

\* a table with the four fields named, one with three columns none of which
\* names a field, and one with two such columns
NamedColumns == <<<<"N","o",".">>, <<"D","e","s","c","r","i","p","t","i","o","n">>, <<"Q","t","y">>, <<"C","a","t","e","g","o","r","y">>>>
UnnamedColumns == <<<<"T","a","g">>, <<"R","e","f">>, <<"D","e","t","a","i","l","s">>>>
TwoColumns == <<<<"T","a","g">>, <<"D","e","t","a","i","l","s">>>>

MISSING_CELL == <<"n","a","n">>

\* rows of the table with named columns: the number is there or missing;
\* the quantity is a number, zero, a half or a note; the category is a code,
\* a code read as a float, a number that is no code or a note.  One row is
\* empty and one repeats the header.
NamedRowCells ==
    { <<no, WALK_IN, qty, cat>> :
        no \in {<<"2">>, MISSING_CELL},
        qty \in {<<"2">>, <<"0">>, <<"0",".","5">>, TBD},
        cat \in {<<"5">>, <<"5",".","0">>, <<"9">>, TBD} }
    \cup { <<MISSING_CELL, MISSING_CELL, MISSING_CELL, MISSING_CELL>>,
           <<<<"7">>, <<"D","e","s","c","r","i","p","t","i","o","n">>, <<"Q","t","y">>, <<"C","a","t","e","g","o","r","y">>>> }

UnnamedRowCells ==
    { <<no, <<"5","0","0","1">>, WALK_IN>> : no \in {<<"2">>, <<"7">>, MISSING_CELL} }

TwoColumnRowCells == { <<<<"2">>, WALK_IN>> }

DrawingTables ==
    { [columns |-> NamedColumns, rows |-> rows] : rows \in SeqsUpTo(NamedRowCells, MaxDrawingRows) }
    \cup { [columns |-> UnnamedColumns, rows |-> rows] : rows \in SeqsUpTo(UnnamedRowCells, MaxDrawingRows) }
    \cup { [columns |-> TwoColumns, rows |-> rows] : rows \in SeqsUpTo(TwoColumnRowCells, MaxDrawingRows) }

\* lines of a schedule as pdfplumber gives them: number, equipment number,
\* description, quantity, category and the electrical columns
DrawingLines ==
    { <<"1","2"," ","S","H","E","L","V","I","N","G"," ","U","N","I","T"," ","2"," ","5">>,
      <<"1","2","a"," ","5","0","0","1"," ","W","A","L","K"," ","I","N"," ","C","O","O","L","E","R"," ","0"," ","6"," ","1","5","A"," ","1","2","0","V">>,
      <<"7"," ","S","P","A","R","E"," ","1"," ","-">>,
      <<"3"," ","-"," ","H","A","N","D"," ","S","I","N","K"," ","1"," ","4">>,
      <<"9","5"," ","F","R","E","E","Z","E","R"," ","U","N","I","T"," ","1"," ","5">>,
      <<"E","1"," ","E","L","E","C","T","R","I","C","A","L"," ","P","A","N","E","L"," ","1"," ","5">> }

DrawingFiles ==
    { [type |-> "csv", filename |-> "d1.csv", sheets |-> <<df>>] : df \in DrawingTables }
    \cup { [type |-> "pdf", filename |-> "d1.pdf", text |-> lines] :
            lines \in SeqsUpTo(DrawingLines, MaxTextLines) }

InitDrawing ==
    /\ pc = "upload_drawing"
    /\ parsed \in DrawingFiles
    /\ drawing_schedule = <<>>
    /\ quotes = <<>>
    /\ matched = 0
    /\ analysis = <<>>
    /\ extracted = None
    /\ quotes_data = <<>>
    /\ drawing_filename = None
    /\ column_map = None
    /\ quote_scan = None
    /\ total_quoted = None
    /\ load_log = <<>>
    /\ category_enforcement = TRUE

\* the drawing uploader of the Upload tab for one new file: the schedule is
\* stored when it is not empty; extracted keeps what the extraction function
\* called for the file returned
UploadDrawing ==
    /\ pc = "upload_drawing"
    /\ extracted' =
        IF parsed.type = "pdf"
        THEN IF parsed.text # <<>> THEN Some(parse_equipment_from_text(parsed.text)) ELSE None
        ELSE extract_equipment_from_dataframe(parsed.sheets[1])
    /\ drawing_schedule' =
        IF process_drawing_file(parsed) # <<>> THEN process_drawing_file(parsed)
        ELSE drawing_schedule
    /\ pc' = "drawing_uploaded"
    /\ UNCHANGED <<quotes, matched, analysis, category_enforcement, parsed,
                   quotes_data, drawing_filename, column_map, quote_scan, total_quoted, load_log>>

NextDrawing == UploadDrawing

SpecDrawing == InitDrawing /\ [][NextDrawing]_vars

(***************************************************************************)
(* Quote parsing from text, one line at a time.  quote_scan holds the      *)
(* locals of parse_quote_from_text: the number of lines read, the open     *)
(* item (current_item, current_desc, current_qty, current_unit,            *)
(* current_total) and the list of records appended so far.                 *)
(***************************************************************************)
MaxQuoteLines == 3

\* skip_words of parse_quote_from_text
QUOTE_SKIP_WORDS ==
    { <<"p","a","g","e"," ">>,
      <<"c","a","n","a","d","i","a","n"," ","r","e","s","t","a","u","r","a","n","t">>,
      <<"b","i","r","d"," ","c","o","n","s","t","r","u","c">>,
      <<"f","w","g"," ","l","t","c">>,
      <<"i","t","e","m"," ","q","t","y"," ","d","e","s","c","r","i","p","t","i","o","n">>,
      <<"s","e","l","l"," ","t","o","t","a","l">>,
      <<"m","e","r","c","h","a","n","d","i","s","e">>,
      <<"p","r","i","c","e","s"," ","a","r","e"," ","i","n">>,
      <<"q","u","o","t","e"," ","v","a","l","i","d">> }

\* the index of the last character of the longest run of characters of
\* chars that starts at i; i - 1 when there is no such run
RECURSIVE RunEnd(_, _, _)
RunEnd(s, i, chars) ==
    IF i <= Len(s) /\ s[i] \in chars THEN RunEnd(s, i + 1, chars) ELSE i - 1

\* re.match(r'^[\d\-]+[a-z]?\s+NIC', line, re.IGNORECASE)
nic_line_re(line) ==
    LET a == RunEnd(line, 1, Range(DigitChars) \cup {"-"})
        b == IF a + 1 <= Len(line) /\ IsLetter(line[a + 1]) THEN a + 1 ELSE a
        c == SpaceRunEnd(line, b + 1)
    IN  a >= 1 /\ c >= b + 1 /\ c + 3 <= Len(line)
        /\ lower(SubSeq(line, c + 1, c + 3)) = <<"n","i","c">>

\* \$?([\d,]+\.\d{2}) matched at p: where the group starts and ends (to = 0:
\* no match at p)
PriceAt(s, p) ==
    LET g == IF p <= Len(s) /\ s[p] = "$" THEN p + 1 ELSE p
        e == RunEnd(s, g, Range(DigitChars) \cup {","})
    IN  IF e >= g /\ e + 3 <= Len(s) /\ s[e + 1] = "." /\ IsDigit(s[e + 2]) /\ IsDigit(s[e + 3])
        THEN [from |-> g, to |-> e + 3]
        ELSE [from |-> g, to |-> 0]

\* ITEM\s*TOTAL[:\s]*\$?([\d,]+\.\d{2}), ignoring case, matched at i: the group
ItemTotalAt(line, i) ==
    LET j == SpaceRunEnd(line, i + 4)
        k == RunEnd(line, j + 6, {":", " "})
    IN  IF /\ j + 5 <= Len(line)
           /\ lower(SubSeq(line, i, i + 3)) = <<"i","t","e","m">>
           /\ lower(SubSeq(line, j + 1, j + 5)) = <<"t","o","t","a","l">>
           /\ PriceAt(line, k + 1).to # 0
        THEN Some(SubSeq(line, PriceAt(line, k + 1).from, PriceAt(line, k + 1).to))
        ELSE None

\* re.search(r'ITEM\s*TOTAL[:\s]*\$?([\d,]+\.\d{2})', line, re.IGNORECASE):
\* group 1 of the first match, None without a match
item_total_re(line) ==
    LET starts == {i \in DOMAIN line : ItemTotalAt(line, i) # None}
    IN  IF starts = {} THEN None
        ELSE ItemTotalAt(line, CHOOSE i \in starts : \A j \in starts : i <= j)

\* re.match(r'^(\d+[a-z]?)\s+(\d+)\s*ea\s+(.+)$', line, re.IGNORECASE) on a
\* stripped line: the three groups
quote_item_re(line) ==
    LET a == DigitRunEnd(line, 1)
        b == IF a + 1 <= Len(line) /\ IsLetter(line[a + 1]) THEN a + 1 ELSE a
        c == SpaceRunEnd(line, b + 1)
        d == DigitRunEnd(line, c + 1)
        e == SpaceRunEnd(line, d + 1)
        f == SpaceRunEnd(line, e + 3)
    IN  IF /\ a >= 1 /\ c >= b + 1 /\ d >= c + 1
           /\ e + 2 <= Len(line)
           /\ lower(SubSeq(line, e + 1, e + 2)) = <<"e","a">>
           /\ f >= e + 3 /\ f < Len(line)
        THEN [ok |-> TRUE, item |-> SubSeq(line, 1, b), qty |-> DigitsValue(SubSeq(line, c + 1, d)),
              rest |-> SubSeq(line, f + 1, Len(line))]
        ELSE [ok |-> FALSE, item |-> <<>>, qty |-> 0, rest |-> <<>>]

\* re.findall(r'\$?([\d,]+\.\d{2})', rest), from position p on
RECURSIVE findall_prices(_, _)
findall_prices(rest, p) ==
    IF p > Len(rest) THEN <<>>
    ELSE IF PriceAt(rest, p).to # 0
        THEN <<SubSeq(rest, PriceAt(rest, p).from, PriceAt(rest, p).to)>>
                 \o findall_prices(rest, PriceAt(rest, p).to + 1)
    ELSE findall_prices(rest, p + 1)

\* re.sub(r'\s*\$?[\d,]+\.\d{2}', '', rest), from position p on
RECURSIVE sub_prices(_, _)
sub_prices(rest, p) ==
    IF p > Len(rest) THEN <<>>
    ELSE IF PriceAt(rest, SpaceRunEnd(rest, p) + 1).to # 0
        THEN sub_prices(rest, PriceAt(rest, SpaceRunEnd(rest, p) + 1).to + 1)
    ELSE <<rest[p]>> \o sub_prices(rest, p + 1)

\* the append of lines 2070-2078 and 2087-2095: the open item becomes a
\* record when it has a number and a description
CloseItem(scan, filename) ==
    IF /\ scan.current_item # None /\ Val(scan.current_item) # <<>>
       /\ scan.current_desc # None /\ Val(scan.current_desc) # <<>>
    THEN [scan EXCEPT !.quotes = Append(@,
            QuoteItem(Val(scan.current_item), strip(Val(scan.current_desc)), scan.current_qty,
                      scan.current_unit,
                      IF scan.current_total.c # 0 THEN scan.current_total
                      ELSE float_times_int(scan.current_unit, scan.current_qty),
                      filename))]
    ELSE scan

\* lines 2079-2085: the item of the matched line becomes the open item
OpenItem(scan, m) ==
    LET prices == findall_prices(m.rest, 1)
        unit == IF prices # <<>> THEN py_float(replace_char(prices[1], ",")).f ELSE Float(0)
    IN  [scan EXCEPT !.current_item = Some(m.item),
                     !.current_qty = m.qty,
                     !.current_desc = Some(strip(sub_prices(m.rest, 1))),
                     !.current_unit = unit,
                     !.current_total = IF Len(prices) >= 2
                                       THEN py_float(replace_char(prices[2], ",")).f
                                       ELSE float_times_int(unit, m.qty)]

\* an ITEM TOTAL line that closes the open item
ScanQuoteLine_TotalCloses(scan, raw, filename) ==
    LET line == strip(raw)
    IN  IF line = <<>> THEN scan
        ELSE IF \E w \in QUOTE_SKIP_WORDS : IsSubstring(w, lower(line)) THEN scan
        ELSE IF nic_line_re(line) THEN scan
        ELSE IF item_total_re(line) # None /\ scan.current_item # None
            THEN [CloseItem([scan EXCEPT !.current_total =
                                py_float(replace_char(Val(item_total_re(line)), ",")).f], filename)
                     EXCEPT !.current_item = None]
        ELSE IF quote_item_re(line).ok THEN OpenItem(CloseItem(scan, filename), quote_item_re(line))
        ELSE scan

\* the body of the loop of parse_quote_from_text for one line (2052-2085).
\* The quotient current_total / current_qty is exact in hundredths for the
\* quantities and totals of the runs.
ScanQuoteLine(scan, raw, filename) ==
    LET line == strip(raw)
    IN  IF line = <<>> THEN scan
        ELSE IF \E w \in QUOTE_SKIP_WORDS : IsSubstring(w, lower(line)) THEN scan
        ELSE IF nic_line_re(line) THEN scan
        ELSE IF item_total_re(line) # None /\ scan.current_item # None
            THEN [scan EXCEPT
                    !.current_total = py_float(replace_char(Val(item_total_re(line)), ",")).f,
                    !.current_unit =
                        IF scan.current_unit.c = 0 /\ scan.current_qty > 0
                        THEN Float(py_float(replace_char(Val(item_total_re(line)), ",")).f.c
                                       \div scan.current_qty)
                        ELSE @]
        ELSE IF quote_item_re(line).ok THEN OpenItem(CloseItem(scan, filename), quote_item_re(line))
        ELSE scan

\* lines of a quote as pdfplumber gives them: item lines with two prices,
\* with none, without a description and with quantity 0; ITEM TOTAL lines; a
\* line with a skip word, a NIC line and a blank line
QuoteLines ==
    { <<"1"," ","2"," ","e","a"," ","C","o","o","l","e","r"," ","$","5",".","0","0"," ","$","1","2",".","0","0">>,
      <<"2","a"," ","2"," ","e","a"," ","S","i","n","k">>,
      <<"3"," ","1"," ","e","a"," ","$","5",".","0","0">>,
      <<"4"," ","0"," ","e","a"," ","H","o","o","d">>,
      <<"I","T","E","M"," ","T","O","T","A","L",":"," ","$","1",",","0","1","0",".","0","0">>,
      <<"I","t","e","m"," ","T","o","t","a","l"," ","0",".","0","0">>,
      <<"S","e","l","l"," ","T","o","t","a","l"," ","$","1","5",".","0","0">>,
      <<"5"," ","N","I","C">>,
      <<" "," ">> }

InitQuoteText ==
    /\ pc = "scan_lines"
    /\ parsed \in { [type |-> "pdf", filename |-> "q1.pdf", text |-> lines] :
                        lines \in SeqsUpTo(QuoteLines, MaxQuoteLines) }
    /\ quote_scan = Some([i |-> 0, current_item |-> None, current_desc |-> None, current_qty |-> 0,
                          current_unit |-> Float(0), current_total |-> Float(0), quotes |-> <<>>])
    /\ drawing_schedule = <<>>
    /\ quotes = <<>>
    /\ matched = 0
    /\ analysis = <<>>
    /\ extracted = None
    /\ quotes_data = <<>>
    /\ drawing_filename = None
    /\ column_map = None
    /\ total_quoted = None
    /\ load_log = <<>>
    /\ category_enforcement = TRUE

\* one turn of the loop over text.split('\n')
ScanLine ==
    /\ pc = "scan_lines"
    /\ Val(quote_scan).i < Len(parsed.text)
    /\ quote_scan' = Some([ScanQuoteLine(Val(quote_scan), parsed.text[Val(quote_scan).i + 1],
                                         parsed.filename)
                              EXCEPT !.i = Val(quote_scan).i + 1])
    /\ UNCHANGED <<pc, parsed, quotes, drawing_schedule, matched, analysis, category_enforcement, extracted, quotes_data, drawing_filename, column_map, total_quoted, load_log>>

\* the end of the loop: the last append and the return
FinishScan ==
    /\ pc = "scan_lines"
    /\ Val(quote_scan).i = Len(parsed.text)
    /\ quote_scan' = Some(CloseItem(Val(quote_scan), parsed.filename))
    /\ quotes' = CloseItem(Val(quote_scan), parsed.filename).quotes
    /\ pc' = "parse_return"
    /\ UNCHANGED <<parsed, drawing_schedule, matched, analysis, category_enforcement, extracted, quotes_data, drawing_filename, column_map, total_quoted, load_log>>

NextQuoteText == ScanLine \/ FinishScan

SpecQuoteText == InitQuoteText /\ [][NextQuoteText]_vars

(***************************************************************************)
(* Quote files whose rows repeat item numbers or leave the item cell       *)
(* blank; the descriptions tell the rows apart.                            *)
(***************************************************************************)
BatchRowCells ==
    { <<item, desc, <<"1">>, <<"$","5",".","0","0">>, <<"$","5",".","0","0">>>> :
        item \in {<<"1","5">>, <<"7">>, <<" ">>},
        desc \in {COOLER, WALK_IN} }

BatchFiles ==
    { [type |-> "csv", filename |-> "q1.csv",
       sheets |-> <<[columns |-> QuoteColumns, rows |-> rows]>>] :
        rows \in SeqsUpTo(BatchRowCells, MaxRows) }

InitBatch ==
    /\ pc = "upload_quotes"
    /\ parsed \in BatchFiles
    /\ drawing_schedule \in {<<d>> : d \in QuoteFileDrawingItems}
    /\ quotes = <<>>
    /\ matched = 0
    /\ analysis = <<>>
    /\ extracted = None
    /\ quotes_data = <<>>
    /\ drawing_filename = None
    /\ column_map = None
    /\ quote_scan = None
    /\ total_quoted = None
    /\ load_log = <<>>
    /\ category_enforcement = TRUE

SpecBatch == InitBatch /\ [][Next]_vars

(***************************************************************************)
(* Column-mapping runs: the column mapping of the drawing extractor or of  *)
(* the quote extractor is computed for the columns of a table.             *)
(***************************************************************************)
MaxColumns == 3

\* names a schedule or a quote has for its columns
ColumnNames ==
    { <<"N","o",".">>,
      <<"D","e","s","c","r","i","p","t","i","o","n">>,
      <<"Q","t","y">>,
      <<"I","t","e","m"," ","D","e","s","c","r","i","p","t","i","o","n">>,
      <<"N","e","w"," ","E","q","u","i","p","m","e","n","t"," ","N","u","m","b","e","r">>,
      <<"S","e","l","l">>,
      <<"I","t","e","m">> }

\* the sequences of at most n different members of S
RECURSIVE DistinctSeqsUpTo(_, _)
DistinctSeqsUpTo(S, n) ==
    IF n = 0 THEN {<<>>}
    ELSE LET shorter == DistinctSeqsUpTo(S, n - 1)
         IN  shorter \cup
                 UNION { {Append(t, x) : x \in S \ {t[i] : i \in DOMAIN t}} :
                         t \in {u \in shorter : Len(u) = n - 1} }

ColumnFiles ==
    { [type |-> "csv", filename |-> "t1.csv", sheets |-> <<[columns |-> columns, rows |-> <<>>]>>] :
        columns \in DistinctSeqsUpTo(ColumnNames, MaxColumns) \ {<<>>} }

InitColumns ==
    /\ pc = "map_columns"
    /\ parsed \in ColumnFiles
    /\ drawing_schedule = <<>>
    /\ quotes = <<>>
    /\ matched = 0
    /\ analysis = <<>>
    /\ extracted = None
    /\ quotes_data = <<>>
    /\ drawing_filename = None
    /\ column_map = None
    /\ quote_scan = None
    /\ total_quoted = None
    /\ load_log = <<>>
    /\ category_enforcement = TRUE

\* the mapping extract_equipment_from_dataframe computes before its row loop
MapDrawingColumns ==
    /\ pc = "map_columns"
    /\ column_map' = Some(drawing_found(normalize_columns(parsed.sheets[1].columns)))
    /\ pc' = "drawing_mapped"
    /\ UNCHANGED <<drawing_schedule, quotes, matched, analysis, category_enforcement, parsed,
                   extracted, quotes_data, drawing_filename, quote_scan, total_quoted, load_log>>

\* the mapping extract_quotes_from_dataframe computes before its row loop
MapQuoteColumns ==
    /\ pc = "map_columns"
    /\ column_map' = Some(quote_found(normalize_columns(parsed.sheets[1].columns)))
    /\ pc' = "quote_mapped"
    /\ UNCHANGED <<drawing_schedule, quotes, matched, analysis, category_enforcement, parsed,
                   extracted, quotes_data, drawing_filename, quote_scan, total_quoted, load_log>>

NextColumns == MapDrawingColumns \/ MapQuoteColumns

SpecColumns == InitColumns /\ [][NextColumns]_vars

(***************************************************************************)
(* The session of the Upload and Dashboard tabs.  An uploaded file is its  *)
(* name and what parse_uploaded_file returns for it (None when it returns  *)
(* None).  quotes, analysis and total_quoted are locals of the Dashboard   *)
(* tab of one run of the script and parsed, here, the files the quote      *)
(* uploader holds in the run: the next run starts without them.  pc names  *)
(* what the last run did.                                                  *)
(***************************************************************************)
MaxUpload == 2
MaxLoads == 3

UploadedFile(name, parsed_data) == [name |-> name, parsed |-> parsed_data]

\* the body of the quote uploader's loop without the guard on the name
StoreQuotes_Overwrite(qd, name, q) ==
    IF q # <<>>
    THEN SelectSeq(qd, LAMBDA e : e.name # name) \o <<[name |-> name, batch |-> q]>>
    ELSE qd

\* the body of the quote uploader's loop for the file of that name, q
\* being what process_quote_file returns for it (nothing when
\* parse_uploaded_file returns None)
StoreQuotes(qd, name, q) ==
    IF \E k \in DOMAIN qd : qd[k].name = name THEN qd
    ELSE IF q # <<>> THEN Append(qd, [name |-> name, batch |-> q])
    ELSE qd

\* the quote uploader's loop over the files it holds
RECURSIVE UploadQuoteFiles(_, _)
UploadQuoteFiles(qd, qf) ==
    IF qf = <<>> THEN qd
    ELSE UploadQuoteFiles(
             StoreQuotes(qd, Head(qf).name,
                         IF Head(qf).parsed = None THEN <<>>
                         ELSE process_quote_file(Val(Head(qf).parsed))),
             Tail(qf))

\* the names under which after holds a batch that before does not hold, in
\* the order of after
StoredNames(before, after) ==
    LET new == SelectSeq(after, LAMBDA e : e \notin {before[k] : k \in DOMAIN before})
    IN  [k \in DOMAIN new |-> new[k].name]

\* the batches taken from the last stored file to the first
RECURSIVE all_q_Reversed(_)
all_q_Reversed(qd) ==
    IF qd = <<>> THEN <<>> ELSE all_q_Reversed(Tail(qd)) \o Head(qd).batch

\* all_q of the Dashboard tab: the batches of quotes_data.values(), one after the other
RECURSIVE all_q(_)
all_q(qd) ==
    IF qd = <<>> THEN <<>> ELSE Head(qd).batch \o all_q(Tail(qd))

\* the drawing uploader that records the name of a file that gave nothing
StoreDrawing_NameAlways(schedule, filename, name, equip) ==
    IF equip # <<>> THEN <<equip, Some(name)>> ELSE <<schedule, Some(name)>>

\* the drawing uploader for a file of another name, equip being what
\* process_drawing_file returns for it (nothing when parse_uploaded_file
\* returns None): equipment_schedule and drawing_filename after it
StoreDrawing(schedule, filename, name, equip) ==
    IF equip # <<>> THEN <<equip, Some(name)>> ELSE <<schedule, filename>>

\* the sum over the actionable rows only
RECURSIVE TotalPriceSum_Actionable(_)
TotalPriceSum_Actionable(df) ==
    IF df = <<>> THEN 0
    ELSE (IF Head(df).Total_Price.nan \/ Head(df).Status \in {"IH Supply", "Existing", "N/A"}
          THEN 0 ELSE Head(df).Total_Price.c) + TotalPriceSum_Actionable(Tail(df))

\* df['Total_Price'].sum(), in hundredths: missing values are skipped
RECURSIVE TotalPriceSum(_)
TotalPriceSum(df) ==
    IF df = <<>> THEN 0
    ELSE (IF Head(df).Total_Price.nan THEN 0 ELSE Head(df).Total_Price.c) + TotalPriceSum(Tail(df))

\* quote files: two of one name with different rows (one is a line priced
\* zero whose item number is a dash), one of another name with a total cell
\* left empty, one without rows and one parse_uploaded_file returns None for
SessionQuoteFiles ==
    LET CsvFile(name, columns, rows) ==
            Some([type |-> "csv", filename |-> name, sheets |-> <<[columns |-> columns, rows |-> rows]>>])
        price == <<"$","5",".","0","0">>
        cooler_15 == <<<<"1","5">>, COOLER, <<"1">>, price, price>>
        walk_in_15 == <<<<"1","5">>, WALK_IN, <<"2">>, price, <<"$","1",",","0","1","0",".","0","0">>>>
        cooler_7 == <<<<"7">>, COOLER, <<"1">>, price, MISSING_CELL>>
        freight == <<<<"-">>, COOLER, <<"1">>, <<"$","0",".","0","0">>, <<"0">>>>
    IN  { UploadedFile("q1.csv", CsvFile("q1.csv", QuoteColumns, <<cooler_15>>)),
          UploadedFile("q1.csv", CsvFile("q1.csv", QuoteColumns, <<freight>>)),
          UploadedFile("q2.csv", CsvFile("q2.csv", QuoteColumns, <<cooler_7, walk_in_15>>)),
          UploadedFile("q2.csv", CsvFile("q2.csv", QuoteColumns, <<>>)),
          UploadedFile("q1.csv", None) }

\* drawing files: two schedules (supplier codes 1, 5, 8 and a spare; one
\* number is a dash), a table without rows and a file parse_uploaded_file
\* returns None for
SessionDrawingFiles ==
    LET CsvFile(name, columns, rows) ==
            Some([type |-> "csv", filename |-> name, sheets |-> <<[columns |-> columns, rows |-> rows]>>])
    IN  { UploadedFile("d1.csv", CsvFile("d1.csv", NamedColumns,
              << <<<<"1","5">>, WALK_IN, <<"2">>, <<"1">>>>, <<<<"-">>, COOLER, <<"1">>, <<"5">>>> >>)),
          UploadedFile("d2.csv", CsvFile("d2.csv", NamedColumns,
              << <<<<"1","5">>, WALK_IN, <<"1">>, <<"8">>>>,
                 <<<<"7">>, <<"S","p","a","r","e">>, <<"1">>, <<"6">>>> >>)),
          UploadedFile("d3.csv", CsvFile("d3.csv", NamedColumns, <<>>)),
          UploadedFile("d3.csv", None) }

InitSession ==
    /\ pc = "session"
    /\ parsed = <<>>
    /\ drawing_schedule = <<>>
    /\ quotes = <<>>
    /\ matched = 0
    /\ analysis = <<>>
    /\ extracted = None
    /\ quotes_data = <<>>
    /\ drawing_filename = None
    /\ column_map = None
    /\ quote_scan = None
    /\ total_quoted = None
    /\ load_log = <<>>
    /\ category_enforcement = TRUE

\* the drawing uploader holds a file whose name is not drawing_filename
DrawingUploader ==
    \E df_file \in SessionDrawingFiles :
        /\ drawing_filename # Some(df_file.name)
        /\ \E stored \in {StoreDrawing(drawing_schedule, drawing_filename, df_file.name,
                                       IF df_file.parsed = None THEN <<>>
                                       ELSE process_drawing_file(Val(df_file.parsed)))} :
            /\ drawing_schedule' = stored[1]
            /\ drawing_filename' = stored[2]
            /\ pc' = IF stored[1] # drawing_schedule THEN "drawing_uploaded" ELSE "drawing_failed"
        /\ quotes' = <<>> /\ analysis' = <<>> /\ total_quoted' = None /\ parsed' = <<>>
        /\ UNCHANGED <<quotes_data, load_log, category_enforcement, column_map, quote_scan, extracted, matched>>

\* the quote uploader holds the files qf
QuoteUploader ==
    \E qf \in DistinctSeqsUpTo(SessionQuoteFiles, MaxUpload) \ {<<>>} :
        /\ \A i, j \in DOMAIN qf : qf[i].name = qf[j].name => i = j
        /\ \E stored \in {UploadQuoteFiles(quotes_data, qf)} :
            /\ Len(load_log) + Len(StoredNames(quotes_data, stored)) <= MaxLoads
            /\ load_log' = load_log \o StoredNames(quotes_data, stored)
            /\ quotes_data' = stored
        /\ parsed' = qf
        /\ pc' = "quotes_uploaded"
        /\ quotes' = <<>> /\ analysis' = <<>> /\ total_quoted' = None
        /\ UNCHANGED <<drawing_schedule, drawing_filename, category_enforcement, column_map, quote_scan, extracted, matched>>

\* the Clear Quotes button, shown when quotes_data is not empty
ClearQuotes ==
    /\ quotes_data # <<>>
    /\ quotes_data' = <<>>
    /\ pc' = "cleared"
    /\ quotes' = <<>> /\ analysis' = <<>> /\ total_quoted' = None /\ parsed' = <<>>
    /\ UNCHANGED <<drawing_schedule, drawing_filename, load_log, category_enforcement, column_map, quote_scan, extracted, matched>>

\* the Reset All button
ResetAll ==
    /\ drawing_schedule' = <<>>
    /\ quotes_data' = <<>>
    /\ drawing_filename' = None
    /\ pc' = "reset"
    /\ quotes' = <<>> /\ analysis' = <<>> /\ total_quoted' = None /\ parsed' = <<>>
    /\ UNCHANGED <<load_log, category_enforcement, column_map, quote_scan, extracted, matched>>

\* a Dashboard tab that uses up the stored batches
DashboardTab_ClearsQuotes ==
    /\ drawing_schedule # <<>>
    /\ quotes_data # <<>>
    /\ quotes' = all_q(quotes_data)
    /\ \E df \in {analyze_drawing_vs_quotes(drawing_schedule, all_q(quotes_data))} :
        /\ analysis' = df
        /\ total_quoted' = Some(TotalPriceSum(df))
    /\ quotes_data' = <<>>
    /\ pc' = "dashboard"
    /\ parsed' = <<>>
    /\ UNCHANGED <<drawing_schedule, drawing_filename, load_log, category_enforcement, column_map, quote_scan, extracted, matched>>

\* the Dashboard tab when a schedule and quotes are held: the analysis and
\* the Total Quoted metric
DashboardTab ==
    /\ drawing_schedule # <<>>
    /\ quotes_data # <<>>
    /\ quotes' = all_q(quotes_data)
    /\ \E df \in {analyze_drawing_vs_quotes(drawing_schedule, all_q(quotes_data))} :
        /\ analysis' = df
        /\ total_quoted' = Some(TotalPriceSum(df))
    /\ pc' = "dashboard"
    /\ parsed' = <<>>
    /\ UNCHANGED <<drawing_schedule, drawing_filename, quotes_data, load_log, category_enforcement, column_map, quote_scan, extracted, matched>>

NextSession == DrawingUploader \/ QuoteUploader \/ ClearQuotes \/ ResetAll \/ DashboardTab

SpecSession == InitSession /\ [][NextSession]_vars

(***************************************************************************)
(* Vocabulary of the properties.                                           *)
(***************************************************************************)
Least(S) == CHOOSE x \in S : \A y \in S : x <= y

LeastOrZero(S) == IF S = {} THEN 0 ELSE Least(S)

Contains(s, sub) ==
    \E i \in 1..(Len(s) - Len(sub) + 1) : SubSeq(s, i, i + Len(sub) - 1) = sub

\* the description is "spare" in any letter case
IsSpare(item) == lower(item.Description) = <<"s","p","a","r","e">>

\* spare or placeholder: the description is SPARE, "-" or "N/A", or contains SPARE
IsSpareOrPlaceholder(item) ==
    LET d == upper(strip(item.Description))
    IN  d \in {SPARE, <<"-">>, <<"N","/","A">>} \/ Contains(d, SPARE)

\* a Not-In-Contract quote line: the description is or contains NIC
IsNIC(q) == Contains(upper(strip(q.Description)), <<"N","I","C">>)

\* the quote the matcher returns for the i-th drawing item (0: none)
MatchOf(i) == match_quote_to_drawing(drawing_schedule[i], quotes)

\* decimal text of the small quantities of the runs
QtyText(n) ==
    CASE n = 0 -> "0" [] n = 1 -> "1" [] n = 2 -> "2" [] n = 3 -> "3" [] n = 4 -> "4"

Analyzed == pc = "analyze_return"

(***************************************************************************)
(* Matcher properties (SpecMatch).                                         *)
(***************************************************************************)
\* indices of the quotes whose item number equals the drawing item's,
\* trimmed and ignoring case
ExactMatches ==
    {i \in DOMAIN quotes :
        lower(strip(quotes[i].Item_No)) = lower(strip(drawing_schedule[1].No))}

\* the digits of s, every other character dropped
DigitsOf(s) == SelectSeq(s, LAMBDA c : c \in {"0","1","2","3","4","5","6","7","8","9"})

\* indices of the quotes equal to the drawing item as integers once every
\* non-digit character is stripped from both
DigitMatches ==
    {i \in DOMAIN quotes :
        /\ DigitsOf(drawing_schedule[1].No) # <<>>
        /\ DigitsOf(quotes[i].Item_No) # <<>>
        /\ DigitsValue(DigitsOf(drawing_schedule[1].No)) = DigitsValue(DigitsOf(quotes[i].Item_No))}

\* the letters of s dropped, everything else kept
WithoutLetters(s) == SelectSeq(s, LAMBDA c : ~(c \in Range(LowerLetters) \cup Range(UpperLetters)))

\* indices of the quotes equal to the drawing item as integers once the
\* letters are stripped from both and what is left is read by int()
LetterStrippedMatches ==
    {i \in DOMAIN quotes :
        /\ py_int(WithoutLetters(drawing_schedule[1].No)).ok
        /\ py_int(WithoutLetters(quotes[i].Item_No)).ok
        /\ py_int(WithoutLetters(drawing_schedule[1].No)).val
             = py_int(WithoutLetters(quotes[i].Item_No)).val}

\* C2: when some quote item's item_no equals the drawing item's after
\* trimming and ignoring case, the matcher returns the earliest such quote
\* item, never one that matches only numerically.
C2_ExactMatchFirst ==
    (pc = "match_return" /\ ExactMatches # {}) => matched = Least(ExactMatches)

\* a numeric-only candidate stands before the exact one and is passed over
C2_Witness ==
    /\ pc = "match_return"
    /\ ExactMatches # {}
    /\ \E i \in LetterStrippedMatches \ ExactMatches : i < Least(ExactMatches)
    /\ matched = Least(ExactMatches)

\* C3 as stated: with no exact match, the matcher returns the first
\* candidate equal to the drawing identifier as integers after every
\* non-digit character is stripped from both, and None only if there is none.
C3_DigitStrippedMatch ==
    (pc = "match_return" /\ ExactMatches = {}) => matched = LeastOrZero(DigitMatches)

\* C3 as amended: with no exact match, the matcher returns the first
\* candidate equal to the drawing identifier as integers after the letters
\* (and only the letters) are stripped from both and the rest is read by
\* int(), and None only if there is none.
C3_LetterStrippedMatch ==
    (pc = "match_return" /\ ExactMatches = {}) => matched = LeastOrZero(LetterStrippedMatches)

\* "1a" finds "1", or "1" finds "1a", behind a candidate that does not match
C3_Witness ==
    /\ pc = "match_return"
    /\ ExactMatches = {}
    /\ matched = 2
    /\ \/ drawing_schedule[1].No = <<"1","a">> /\ quotes[2].Item_No = <<"1">>
       \/ drawing_schedule[1].No = <<"1">> /\ quotes[2].Item_No = <<"1","a">>

(***************************************************************************)
(* Status engine properties (SpecAnalyze).                                 *)
(***************************************************************************)
\* C1: every drawing item whose description is "spare" in any letter case
\* gets status N/A, whatever its supplier code and whatever the quotes.
C1_SpareIsNA ==
    Analyzed => \A i \in DOMAIN drawing_schedule :
        IsSpare(drawing_schedule[i]) => analysis[i].Status = "N/A"

\* C4: with category enforcement disabled no result has status Owner Supply,
\* Existing or Needs Pricing, and every unmatched item that is not a spare is
\* a generic MISSING.
C4_DisabledIgnoresCodes ==
    (Analyzed /\ ~category_enforcement) => \A i \in DOMAIN drawing_schedule :
        /\ analysis[i].Status \notin {"Owner Supply", "Existing", "Needs Pricing"}
        /\ (MatchOf(i) = 0 /\ ~IsSpareOrPlaceholder(drawing_schedule[i]))
              => /\ analysis[i].Status = "MISSING"
                 /\ analysis[i].Issue = Some("Not found in quotes")

\* C5: an item that is no spare or placeholder, with a supplier code outside
\* {1,2,3,8} (None included), whose matched quote is not NIC and has the
\* drawing quantity, is Quoted with no issue and the quote's total price.
C5_MatchedSameQtyIsQuoted ==
    Analyzed => \A i \in DOMAIN drawing_schedule :
        LET item == drawing_schedule[i]
            k == MatchOf(i)
        IN  ( /\ ~IsSpareOrPlaceholder(item)
              /\ item.Category \notin {Some(1), Some(2), Some(3), Some(8)}
              /\ k # 0
              /\ ~IsNIC(quotes[k])
              /\ quotes[k].Qty = item.Qty )
            => /\ analysis[i].Status = "Quoted"
               /\ analysis[i].Issue = None
               /\ analysis[i].Total_Price = quotes[k].Total_Price

\* the item comes to the matched-quote rule: no earlier rule of the chain took it
ReachesMatchRule(item) ==
    /\ item.Category \notin {None, Some(1), Some(2), Some(3), Some(8)}
    /\ ~IsSpare(item)

\* C6: an item that reaches the matched-quote rule with a matched, non-NIC
\* quote of another quantity gets Qty Mismatch and the issue
\* "Drawing: {d}, Quote: {q}".
C6_QtyMismatch ==
    Analyzed => \A i \in DOMAIN drawing_schedule :
        LET item == drawing_schedule[i]
            k == MatchOf(i)
        IN  ( /\ ReachesMatchRule(item)
              /\ k # 0
              /\ ~IsNIC(quotes[k])
              /\ quotes[k].Qty # item.Qty )
            => /\ analysis[i].Status = "Qty Mismatch"
               /\ analysis[i].Issue =
                    Some("Drawing: " \o QtyText(item.Qty) \o ", Quote: " \o QtyText(quotes[k].Qty))

\* drawing quantity 1 against a quote of 2
C6_Witness ==
    /\ Analyzed
    /\ \E i \in DOMAIN drawing_schedule :
        /\ ReachesMatchRule(drawing_schedule[i])
        /\ MatchOf(i) # 0
        /\ drawing_schedule[i].Qty = 1
        /\ quotes[MatchOf(i)].Qty = 2
        /\ analysis[i].Issue = Some("Drawing: 1, Quote: 2")

C8_CriticalMissing ==
    (Analyzed /\ category_enforcement) => \A i \in DOMAIN drawing_schedule :
        LET item == drawing_schedule[i]
        IN  ( /\ ~IsSpareOrPlaceholder(item)
              /\ item.Category \in {Some(5), Some(6)}
              /\ MatchOf(i) = 0 )
            => /\ analysis[i].Status = "MISSING"
               /\ analysis[i].Issue = Some("Critical - requires quote")

\* a code-6 item among quotes none of which matches it
C8_Witness ==
    /\ Analyzed
    /\ category_enforcement
    /\ quotes # <<>>
    /\ \E i \in DOMAIN drawing_schedule :
        /\ ~IsSpareOrPlaceholder(drawing_schedule[i])
        /\ drawing_schedule[i].Category = Some(6)
        /\ MatchOf(i) = 0
        /\ analysis[i].Issue = Some("Critical - requires quote")


(***************************************************************************)
(* Quote extraction properties (Spec).                                     *)
(***************************************************************************)
\* the rows of the uploaded table; item number and description are its
\* first two columns
UploadedRows == parsed.sheets[1].rows
RowItemNo(row) == strip(row[1])
RowDescription(row) == row[2]

\* the row is a Not-In-Contract line: its description is or contains NIC
RowIsNIC(row) == Contains(upper(strip(RowDescription(row))), <<"N","I","C">>)

\* s read as the range ^(\d+)[-–](\d+)$
RangeOf(s) ==
    LET cuts == {k \in DOMAIN s :
                    /\ s[k] \in {"-", EnDash}
                    /\ AllDigits(SubSeq(s, 1, k - 1))
                    /\ AllDigits(SubSeq(s, k + 1, Len(s)))}
    IN  IF cuts = {} THEN [ok |-> FALSE, lo |-> 0, hi |-> 0]
        ELSE LET k == CHOOSE c \in cuts : TRUE
             IN  [ok |-> TRUE, lo |-> DigitsValue(SubSeq(s, 1, k - 1)),
                  hi |-> DigitsValue(SubSeq(s, k + 1, Len(s)))]

\* the decimal digits of n, as characters
RECURSIVE NatToChars(_)
NatToChars(n) ==
    IF n < 10 THEN <<DigitChars[n + 1]>>
    ELSE NatToChars(n \div 10) \o <<DigitChars[(n % 10) + 1]>>

\* the row is the quote line of the drawing item: same item number, or a
\* range that includes it
RowCovers(row, item) ==
    \/ lower(RowItemNo(row)) = lower(strip(item.No))
    \/ /\ RangeOf(RowItemNo(row)).ok
       /\ AllDigits(strip(item.No))
       /\ RangeOf(RowItemNo(row)).lo <= DigitsValue(strip(item.No))
       /\ DigitsValue(strip(item.No)) <= RangeOf(RowItemNo(row)).hi

\* C9: a drawing item whose quote lines are Not-In-Contract (one of its own
\* number, or a range such as 11-23 that includes it) has status NIC, issue
\* "Not In Contract" and total price 0, whatever the raw price cells held.
C9_NICLineGivesNIC ==
    Analyzed => \A i \in DOMAIN drawing_schedule :
        ( /\ \E r \in DOMAIN UploadedRows : RowCovers(UploadedRows[r], drawing_schedule[i])
          /\ \A r \in DOMAIN UploadedRows :
                RowCovers(UploadedRows[r], drawing_schedule[i]) => RowIsNIC(UploadedRows[r]) )
        => /\ analysis[i].Status = "NIC"
           /\ analysis[i].Issue = Some("Not In Contract")
           /\ analysis[i].Total_Price = Float(0)

\* C10: a table whose one row has a range a-b (a <= b) as item number gives
\* b-a+1 quote items, numbered a..b in order, each Not-In-Contract, of
\* quantity 1 and price zero.
C10_RangeExpands ==
    ( /\ pc = "uploaded"
      /\ Len(UploadedRows) = 1
      /\ RangeOf(RowItemNo(UploadedRows[1])).ok
      /\ RangeOf(RowItemNo(UploadedRows[1])).lo <= RangeOf(RowItemNo(UploadedRows[1])).hi )
    => LET rg == RangeOf(RowItemNo(UploadedRows[1]))
       IN  /\ Len(quotes) = rg.hi - rg.lo + 1
           /\ \A j \in DOMAIN quotes :
                /\ quotes[j].Item_No = NatToChars(rg.lo + j - 1)
                /\ IsNIC(quotes[j])
                /\ quotes[j].Qty = 1
                /\ quotes[j].Unit_Price = Float(0)
                /\ quotes[j].Total_Price = Float(0)


(***************************************************************************)
(* Further status engine properties (SpecAnalyze, SpecSchedule).           *)
(***************************************************************************)
\* the statuses the chain can assign
StatusTaxonomy ==
    {"IH Supply", "Existing", "N/A", "Quoted", "Qty Mismatch", "Needs Install", "MISSING"}

C19_GenericMissing ==
    Analyzed => \A i \in DOMAIN drawing_schedule :
        LET item == drawing_schedule[i]
        IN  ( /\ ~IsSpareOrPlaceholder(item)
              /\ MatchOf(i) = 0
              /\ item.Category \notin {Some(c) : c \in {1, 2, 3, 5, 6, 7, 8}} )
            => /\ analysis[i].Status = "MISSING"
               /\ analysis[i].Issue = Some("Not found in quotes")

\* C20: an item whose description is SPARE, "-" or "N/A" in any letter case,
\* or contains SPARE, gets N/A / "Spare or placeholder", before any other
\* rule is looked at.
C20_SpareRuleFirst ==
    Analyzed => \A i \in DOMAIN drawing_schedule :
        IsSpareOrPlaceholder(drawing_schedule[i])
            => /\ analysis[i].Status = "N/A"
               /\ analysis[i].Issue = Some("Spare or placeholder")


(***************************************************************************)
(* Price and cell properties of quote extraction (SpecPrices).             *)
(***************************************************************************)
\* the quantity, unit price and total cells of a row as the file has them
RowQtyCell(row) == row[3]
RowUnitCell(row) == row[4]
RowTotalCell(row) == row[5]

\* a cell read as an amount: currency sign and thousands separators dropped
AmountOf(cell) == py_float(replace_char(replace_char(cell, "$"), ","))

\* the cell holds an amount above zero
PositiveAmount(cell) ==
    AmountOf(cell).ok /\ ~AmountOf(cell).f.nan /\ AmountOf(cell).f.c > 0

\* the cell holds zero or nothing
ZeroOrAbsent(cell) ==
    \/ strip(cell) = <<>>
    \/ AmountOf(cell).ok /\ (AmountOf(cell).f.nan \/ AmountOf(cell).f.c = 0)

\* the cell is present and is no number
Unparsable(cell) == strip(cell) # <<>> /\ ~AmountOf(cell).ok

\* the quote items emitted for the i-th uploaded row
QuotesOfRow(i) ==
    {j \in DOMAIN quotes : quotes[j].Item_No = strip(RowItemNo(UploadedRows[i]))}

\* C11: for every quote item emitted, a raw unit price above zero with a
\* raw total of zero or none gives total_price = unit_price * quantity, and
\* a raw total above zero with a raw unit price of zero or none gives
\* unit_price = total_price / quantity.
C11_PriceCompletion ==
    pc = "uploaded" => \A i \in DOMAIN UploadedRows : \A j \in QuotesOfRow(i) :
        LET row == UploadedRows[i]
            q == quotes[j]
        IN  (\A k \in DOMAIN UploadedRows :
                RowItemNo(UploadedRows[k]) = RowItemNo(row) => k = i)
            => /\ (PositiveAmount(RowUnitCell(row)) /\ ZeroOrAbsent(RowTotalCell(row)))
                    => q.Total_Price = float_times_int(q.Unit_Price, q.Qty)
               /\ (PositiveAmount(RowTotalCell(row)) /\ ZeroOrAbsent(RowUnitCell(row)))
                    => float_times_int(q.Unit_Price, q.Qty) = q.Total_Price

\* C16: a row whose quantity or price cell does not parse is still emitted,
\* with quantity 1 or price 0 in the place of the cell; it is never dropped.
C16_UnparsableCellKeepsRow ==
    pc = "uploaded" => \A i \in DOMAIN UploadedRows :
        LET row == UploadedRows[i]
        IN  ( /\ \A k \in DOMAIN UploadedRows :
                    RowItemNo(UploadedRows[k]) = RowItemNo(row) => k = i
              /\ \/ Unparsable(replace_ea(RowQtyCell(row)))
                 \/ Unparsable(RowUnitCell(row))
                 \/ Unparsable(RowTotalCell(row)) )
            => /\ QuotesOfRow(i) # {}
               /\ \A j \in QuotesOfRow(i) :
                    /\ Unparsable(replace_ea(RowQtyCell(row))) => quotes[j].Qty = 1
                    /\ Unparsable(RowUnitCell(row)) => quotes[j].Unit_Price = Float(0)
                    /\ Unparsable(RowTotalCell(row)) => quotes[j].Total_Price = Float(0)


(***************************************************************************)
(* Drawing extraction properties (SpecDrawing).                            *)
(***************************************************************************)
DrawingUploaded == pc = "drawing_uploaded"

\* the drawing items the extraction function returned
ExtractedItems == IF extracted = None THEN <<>> ELSE Val(extracted)

\* the table of an uploaded csv drawing file
DrawingTable == parsed.sheets[1]

\* the column names a field: its name, trimmed and in lower case, is one of
\* the field's names or contains one
NamesField(col, k) ==
    LET name == lower(col)
    IN  strip(name) \in drawing_col_map[k]
        \/ \E o \in drawing_col_map[k] : Contains(name, o)

ColumnsNaming(k) ==
    {j \in DOMAIN DrawingTable.columns : NamesField(strip(DrawingTable.columns[j]), k)}

FieldsNamed == ColumnsNaming("no") # {} /\ ColumnsNaming("description") # {}

\* the required fields are resolved: both are named, or the table has three
\* columns or more and the first and third are taken
FieldsResolved == FieldsNamed \/ Len(DrawingTable.columns) >= 3

\* the first column that names field k
FirstColumnNaming(k) ==
    CHOOSE j \in DOMAIN DrawingTable.columns :
        /\ NamesField(strip(DrawingTable.columns[j]), k)
        /\ \A i \in 1..(j - 1) : ~NamesField(strip(DrawingTable.columns[i]), k)

NoColumn == IF FieldsNamed THEN FirstColumnNaming("no") ELSE 1
DescriptionColumn == IF FieldsNamed THEN FirstColumnNaming("description") ELSE 3

\* the rows that are accepted when the number is read from column nc and the
\* description from column dc: both are there and are no remnant of a header
AcceptedRows(nc, dc) ==
    {i \in DOMAIN DrawingTable.rows :
        LET no == lower(strip(DrawingTable.rows[i][nc]))
            desc == lower(strip(DrawingTable.rows[i][dc]))
        IN  /\ no \notin {<<>>, <<"n","a","n">>, <<"n","o">>, <<"n","o",".">>, <<"i","t","e","m">>}
            /\ desc \notin {<<>>, <<"n","a","n">>, <<"d","e","s","c","r","i","p","t","i","o","n">>}}

\* the k-th row of a set of rows
RowOfRank(rows, k) ==
    CHOOSE i \in rows : Cardinality({j \in rows : j <= i}) = k

\* C13: every drawing item that drawing extraction produces, from a table
\* or from text, has a quantity of 1 or more.
C13_QuantityAtLeastOne ==
    DrawingUploaded => \A i \in DOMAIN ExtractedItems : ExtractedItems[i].Qty >= 1

\* C14: every drawing item that drawing extraction produces has a supplier
\* code that is None or an integer of 1..8.
C14_SupplierCodeInRange ==
    DrawingUploaded => \A i \in DOMAIN ExtractedItems :
        \/ ExtractedItems[i].Category = None
        \/ ExtractedItems[i].Category \in {Some(c) : c \in 1..8}

\* C15: extract_equipment_from_dataframe returns None exactly when the
\* fields no and description cannot be resolved or no row is accepted;
\* otherwise it returns one drawing item per accepted row, in row order.
C15_NoDataOrOnePerRow ==
    (DrawingUploaded /\ parsed.type = "csv") =>
        IF ~FieldsResolved THEN extracted = None
        ELSE \A nc \in {NoColumn} : \A dc \in {DescriptionColumn} :
             \A accepted \in {AcceptedRows(nc, dc)} :
                /\ extracted = None <=> accepted = {}
                /\ extracted # None =>
                    /\ Len(ExtractedItems) = Cardinality(accepted)
                    /\ \A k \in DOMAIN ExtractedItems :
                        LET row == DrawingTable.rows[RowOfRank(accepted, k)]
                        IN  /\ ExtractedItems[k].No = strip(row[nc])
                            /\ ExtractedItems[k].Description = strip(row[dc])

\* a table whose first row is rejected and whose second row is accepted
\* gives the one item of the second row
C15_Witness ==
    /\ DrawingUploaded
    /\ parsed.type = "csv"
    /\ Len(DrawingTable.rows) = 2
    /\ FieldsResolved
    /\ AcceptedRows(NoColumn, DescriptionColumn) = {2}
    /\ Len(ExtractedItems) = 1
    /\ ExtractedItems[1].No = strip(DrawingTable.rows[2][NoColumn])


(***************************************************************************)
(* Column mapping properties (SpecColumns).                                *)
(***************************************************************************)
\* the columns whose trimmed lower-case name is one of the names of field k
\* of the drawing mapping
ExactColumns(k) ==
    {j \in DOMAIN DrawingTable.columns :
        lower(strip(DrawingTable.columns[j])) \in drawing_col_map[k]}

\* C21: in the column mapping computed for a table, no column is assigned
\* to more than one field.
C21_MappingInjective ==
    (pc \in {"drawing_mapped", "quote_mapped"}) =>
        \A k1 \in DOMAIN Val(column_map) : \A k2 \in DOMAIN Val(column_map) :
            (k1 # k2 /\ Val(column_map)[k1] # 0) => Val(column_map)[k1] # Val(column_map)[k2]

\* C22: when the drawing mapping is found by the names of the columns, a
\* field for which some column has exactly one of its names is mapped to
\* such a column, wherever the column stands; a column that only contains
\* a name is taken only when no column has one exactly.
C22_ExactBeforeSubstring ==
    (pc = "drawing_mapped" /\ FieldsNamed) =>
        \A k \in DOMAIN drawing_col_map :
            ExactColumns(k) # {} => Val(column_map)[k] \in ExactColumns(k)


(***************************************************************************)
(* Rows kept by the quote extraction (Spec).                               *)
(***************************************************************************)
\* what is left of a header, or of an empty cell, in a cell
HeaderRemnants ==
    { <<>>, <<"n","a","n">>, <<"n","o","n","e">>, <<"n","o">>, <<"n","o",".">>,
      <<"i","t","e","m">>, <<"d","e","s","c","r","i","p","t","i","o","n">> }

\* the cell holds a value
CellPresent(cell) == lower(strip(cell)) \notin HeaderRemnants

\* C23: after a quote file is processed, every row of it whose item number
\* or whose description is present and is no header remnant has given a
\* quote item; a row with an item number and no description is kept.
C23_RowKeptWhenEitherPresent ==
    (pc \in {"uploaded", "analyze_return"}) =>
        \A i \in DOMAIN UploadedRows :
            (CellPresent(RowItemNo(UploadedRows[i])) \/ CellPresent(RowDescription(UploadedRows[i])))
                => QuotesOfRow(i) # {}


(***************************************************************************)
(* The batch of one quote file (SpecBatch).                                *)
(***************************************************************************)
\* the quote items the extraction gives for the rows of the uploaded file
ExtractedQuotes == ExtractSheets(parsed.sheets, parsed.filename)

\* the first item of every Item_No of qs, in the order of qs
RECURSIVE FirstOccurrences(_, _)
FirstOccurrences(qs, i) ==
    IF i > Len(qs) THEN <<>>
    ELSE (IF \E j \in 1..(i - 1) : qs[j].Item_No = qs[i].Item_No THEN <<>> ELSE <<qs[i]>>)
             \o FirstOccurrences(qs, i + 1)

\* C24: the batch of a quote file holds no two items with the same item
\* number: it is the first extracted item of every item number among the
\* extracted rows, in extraction order.
C24_FirstOccurrenceKept ==
    (pc \in {"uploaded", "analyze_return"}) =>
        /\ \A i, j \in DOMAIN quotes : quotes[i].Item_No = quotes[j].Item_No => i = j
        /\ quotes = FirstOccurrences(ExtractedQuotes, 1)


(***************************************************************************)
(* Session properties (SpecSession).                                       *)
(***************************************************************************)
\* when the held file of that name was stored: its last place in the history
LoadedAt(name) ==
    CHOOSE k \in DOMAIN load_log :
        load_log[k] = name /\ \A j \in DOMAIN load_log : load_log[j] = name => j <= k

\* the held files with an item whose number is item's, trimmed and ignoring case
HeldWithExactMatch(item) ==
    {e \in {quotes_data[k] : k \in DOMAIN quotes_data} :
        \E j \in DOMAIN e.batch : lower(strip(e.batch[j].Item_No)) = lower(strip(item.No))}

\* the one of the files S that was stored first
EarliestLoaded(S) ==
    CHOOSE e \in S : \A other \in S : LoadedAt(e.name) <= LoadedAt(other.name)

\* C25: after any uploads, Clear Quotes and Reset All, a drawing item whose
\* number is exactly the number of an item of one or several held quote
\* files is matched, by the analysis, to the item of the file that was
\* stored first among the files held.
C25_EarliestLoadedWins ==
    (pc = "dashboard") =>
        \A i \in DOMAIN analysis :
            \A files \in {HeldWithExactMatch(drawing_schedule[i])} :
                files # {} =>
                    /\ analysis[i].Quote_Source = EarliestLoaded(files).name
                    /\ \E j \in DOMAIN EarliestLoaded(files).batch :
                        /\ lower(strip(EarliestLoaded(files).batch[j].Item_No))
                               = lower(strip(drawing_schedule[i].No))
                        /\ analysis[i].Quote_Item_No = EarliestLoaded(files).batch[j].Item_No
                        /\ analysis[i].Total_Price = EarliestLoaded(files).batch[j].Total_Price

\* two held files match an item, the one stored first is not the first by
\* name, and a file was cleared before
C25_Witness ==
    /\ pc = "dashboard"
    /\ Len(load_log) > Len(quotes_data)
    /\ \E i \in DOMAIN analysis :
        /\ Cardinality(HeldWithExactMatch(drawing_schedule[i])) = 2
        /\ analysis[i].Quote_Source = "q2.csv"

C27_DrawingSetTogether ==
    /\ [](drawing_schedule # <<>> <=> drawing_filename # None)
    /\ [][/\ (pc' = "drawing_failed") =>
                 (drawing_schedule' = drawing_schedule /\ drawing_filename' = drawing_filename)
          /\ (drawing_schedule' # drawing_schedule \/ drawing_filename' # drawing_filename) =>
                 \/ pc' = "reset" /\ drawing_schedule' = <<>> /\ drawing_filename' = None
                 \/ /\ pc' = "drawing_uploaded"
                    /\ drawing_schedule' # <<>>
                    /\ drawing_filename' # None
                    /\ drawing_filename' # drawing_filename]_vars

\* an upload failed while a schedule was held
C27_Witness ==
    /\ pc = "drawing_failed"
    /\ drawing_schedule # <<>>
    /\ drawing_filename = Some("d2.csv")

\* C28: an upload of quote files leaves every stored batch as it was and
\* stores nothing for a name that is a key of quotes_data already; stored
\* batches go only by Clear Quotes or Reset All, and no stored batch is
\* empty.
C28_HeldBatchesKept ==
    /\ [](\A k \in DOMAIN quotes_data : quotes_data[k].batch # <<>>)
    /\ [][/\ (pc' = "quotes_uploaded") =>
                 /\ Len(quotes_data') >= Len(quotes_data)
                 /\ \A k \in DOMAIN quotes_data : quotes_data'[k] = quotes_data[k]
                 /\ (\A i \in DOMAIN parsed' : \E k \in DOMAIN quotes_data : quotes_data[k].name = parsed'[i].name)
                        => quotes_data' = quotes_data
          /\ (\E k \in DOMAIN quotes_data :
                 quotes_data[k] \notin {quotes_data'[j] : j \in DOMAIN quotes_data'})
                 => pc' \in {"cleared", "reset"}]_vars

\* the uploader held a file whose name was a key and whose rows give another
\* batch than the stored one
C28_Witness ==
    /\ pc = "quotes_uploaded"
    /\ \E i \in DOMAIN parsed : \E k \in DOMAIN quotes_data :
        /\ parsed[i].name = quotes_data[k].name
        /\ parsed[i].parsed # None
        /\ process_quote_file(Val(parsed[i].parsed)) # <<>>
        /\ process_quote_file(Val(parsed[i].parsed)) # quotes_data[k].batch


(***************************************************************************)
(* The Total Quoted metric (SpecSession).                                  *)
(***************************************************************************)
\* the total price of the quote matched to the i-th drawing item, in
\* hundredths: nothing without a match, and nothing for a total that is not
\* a number, which the sum of the column skips
MatchedTotal(i) ==
    IF MatchOf(i) = 0 \/ quotes[MatchOf(i)].Total_Price.nan THEN 0
    ELSE quotes[MatchOf(i)].Total_Price.c

RECURSIVE MatchedTotalsTo(_)
MatchedTotalsTo(n) == IF n = 0 THEN 0 ELSE MatchedTotal(n) + MatchedTotalsTo(n - 1)

\* the row carries the quantity and the prices of the matched quote
CarriesMatch(i) ==
    /\ analysis[i].Quote_Item_No = quotes[MatchOf(i)].Item_No
    /\ analysis[i].Quote_Qty = quotes[MatchOf(i)].Qty
    /\ analysis[i].Unit_Price = quotes[MatchOf(i)].Unit_Price
    /\ analysis[i].Total_Price = quotes[MatchOf(i)].Total_Price

\* the row has the dash and the zero prices of an item without a match
DashAndZeroPrices(i) ==
    /\ analysis[i].Quote_Item_No = <<"-">>
    /\ analysis[i].Unit_Price = Float(0)
    /\ analysis[i].Total_Price = Float(0)

\* C30 as stated: Total Quoted is the sum of the total prices of the quote
\* items matched to drawing items, whatever the status; every matched row
\* carries its quote's quantity and prices; and a row has Quote_Item_No "-"
\* and zero prices exactly when the matcher returned no match.
C30_DashExactlyWhenNoMatch ==
    (pc = "dashboard") =>
        /\ total_quoted = Some(MatchedTotalsTo(Len(drawing_schedule)))
        /\ \A i \in DOMAIN analysis : MatchOf(i) # 0 => CarriesMatch(i)
        /\ \A i \in DOMAIN analysis : DashAndZeroPrices(i) <=> MatchOf(i) = 0

\* C30 amended: Total Quoted is the sum of the total prices of the quote
\* items matched to drawing items, whatever the status, a total that is not
\* a number counting for nothing; every matched row carries its quote's
\* quantity and prices; and every row without a match has Quote_Item_No
\* "-", quantity 0 and zero prices.
C30_TotalQuoted ==
    (pc = "dashboard") =>
        /\ total_quoted = Some(MatchedTotalsTo(Len(drawing_schedule)))
        /\ \A i \in DOMAIN analysis : MatchOf(i) # 0 => CarriesMatch(i)
        /\ \A i \in DOMAIN analysis :
            MatchOf(i) = 0 => (DashAndZeroPrices(i) /\ analysis[i].Quote_Qty = 0)

\* an Existing item with a priced match beside an item without a match
C30_Witness ==
    /\ pc = "dashboard"
    /\ \E i \in DOMAIN analysis :
        /\ analysis[i].Status \in {"IH Supply", "Existing", "N/A"}
        /\ MatchOf(i) # 0
        /\ MatchedTotal(i) > 0
    /\ \E i \in DOMAIN analysis : MatchOf(i) = 0
    /\ Val(total_quoted) > 0


(***************************************************************************)
(* Quote parsing from text (SpecQuoteText).                                *)
(***************************************************************************)
\* the kind of a line of the text: skipped (blank, with a skip word, a NIC
\* line), an ITEM TOTAL line, an item line, or another line
QuoteLineKind(raw) ==
    LET line == strip(raw)
    IN  IF \/ line = <<>>
           \/ \E w \in QUOTE_SKIP_WORDS : IsSubstring(w, lower(line))
           \/ nic_line_re(line)
        THEN "skipped"
        ELSE IF item_total_re(line) # None THEN "item_total"
        ELSE IF quote_item_re(line).ok THEN "item"
        ELSE "other"

\* the amount of an ITEM TOTAL line
ItemTotalOf(raw) == py_float(replace_char(Val(item_total_re(strip(raw))), ",")).f

\* the open item of the scan has a number and a description
OpenWithDescription(scan) ==
    /\ scan.current_item # None
    /\ scan.current_desc # None /\ strip(Val(scan.current_desc)) # <<>>

\* the item numbers of the item lines among lines[i..] whose description,
\* the prices taken out, is not empty
RECURSIVE DescribedItemNos(_, _)
DescribedItemNos(lines, i) ==
    IF i > Len(lines) THEN <<>>
    ELSE (IF /\ QuoteLineKind(lines[i]) = "item"
             /\ strip(sub_prices(quote_item_re(strip(lines[i])).rest, 1)) # <<>>
          THEN <<quote_item_re(strip(lines[i])).item>> ELSE <<>>)
             \o DescribedItemNos(lines, i + 1)

\* what reading the line raw does to the scan, from before to after
LineEffect(before, after, raw) ==
    /\ SubSeq(after.quotes, 1, Len(before.quotes)) = before.quotes
    /\ QuoteLineKind(raw) \in {"skipped", "other"} => after = [before EXCEPT !.i = after.i]
    /\ QuoteLineKind(raw) = "item_total" =>
        /\ after.quotes = before.quotes
        /\ after.current_item = before.current_item
        /\ after.current_desc = before.current_desc
        /\ after.current_qty = before.current_qty
        /\ before.current_item = None => after = [before EXCEPT !.i = after.i]
        /\ before.current_item # None =>
            /\ after.current_total = ItemTotalOf(raw)
            /\ after.current_unit =
                   IF before.current_unit.c = 0 /\ before.current_qty > 0
                   THEN Float(ItemTotalOf(raw).c \div before.current_qty)
                   ELSE before.current_unit
    /\ QuoteLineKind(raw) = "item" =>
        /\ after.current_item = Some(quote_item_re(strip(raw)).item)
        /\ Len(after.quotes) = Len(before.quotes) + (IF OpenWithDescription(before) THEN 1 ELSE 0)
        /\ OpenWithDescription(before) =>
            \A q \in {after.quotes[Len(after.quotes)]} :
                /\ q.Item_No = Val(before.current_item)
                /\ q.Description = strip(Val(before.current_desc))
                /\ q.Qty = before.current_qty
                /\ q.Unit_Price = before.current_unit
                /\ q.Total_Price = IF before.current_total.c # 0 THEN before.current_total
                                   ELSE float_times_int(before.current_unit, before.current_qty)

\* C29: in parse_quote_from_text an ITEM TOTAL line changes the total (and
\* the unit price, when that is 0 and the quantity above 0) of the open item
\* only: it changes no record already emitted and is ignored when no item
\* is open; an item line closes the open item, which is emitted once if it
\* has a description; the records come in the order of their item lines.
C29_ItemTotalOnlyOpenItem ==
    /\ [][(pc = "scan_lines" /\ pc' = "scan_lines") =>
             LineEffect(Val(quote_scan), Val(quote_scan'), parsed.text[Val(quote_scan').i])]_vars
    /\ []((pc = "parse_return") =>
             [k \in DOMAIN quotes |-> quotes[k].Item_No] = DescribedItemNos(parsed.text, 1))

\* an ITEM TOTAL line before any item line, and one after an item line
\* without prices
C29_Witness ==
    /\ pc = "parse_return"
    /\ Len(parsed.text) = 3
    /\ QuoteLineKind(parsed.text[1]) = "item_total"
    /\ QuoteLineKind(parsed.text[2]) = "item"
    /\ QuoteLineKind(parsed.text[3]) = "item_total"
    /\ Len(quotes) = 1
    /\ quotes[1].Unit_Price = Float(50500)
    /\ quotes[1].Total_Price = Float(101000)

=============================================================================
